---- MODULE Spec2Model ----
(***************************************************************************)
(* Analisis_Curricular: thematic keyword detection (ThematicDetector),     *)
(* corpus trend aggregation (analisis_tendencias_globales and the          *)
(* dashboard's analizar_tendencias) and the quality indicators of          *)
(* CurricularAnalyzer.                                                     *)
(*                                                                         *)
(* A Python str is a sequence of one-character strings.  A missing cell    *)
(* (NaN) is the one-element sequence NaN, whose element is not a           *)
(* character; a result that has not been returned yet is None.             *)
(* Percentages that the code rounds to one decimal are kept in tenths      *)
(* (33.3 is 333).                                                          *)
(***************************************************************************)
EXTENDS Integers, Sequences, FiniteSets, TLC

VARIABLES
    text,               \* detect_in_text: the text argument
    tematicas_config,   \* ThematicDetector.tematicas_config
    extract_context,    \* detect_in_text: the extract_context argument
    resultados,         \* detect_in_text: the returned dict, None before the call
    records,            \* the rows read from the workbooks, each tagged with its program
    tendencias,         \* the trend dictionary given to the trend analyses
    df_matriz,          \* generate_thematic_matrix: the returned matrix
    resultados_tendencias,  \* analisis_tendencias_globales: the returned dict
    resultados_tend,    \* analizar_tendencias (dashboard): the returned dict
    programa_data,      \* CurricularAnalyzer.programa_data: the tables of one program
    reporte,            \* generar_reporte_indicadores: the returned dict
    Verbo_RA,              \* the 'Verbo RA' cell of a learning outcome
    Nivel_Dominio,      \* the 'Nivel Dominio' cell of a learning outcome
    niveles_ra,         \* calcular_complejidad_cognitiva: niveles, the levels returned so far
    verbo_coherente,    \* validate_verbo_taxonomico: the returned dict
    quality_weights,    \* config.QUALITY_WEIGHTS as written in config.py, in thousandths
    directorios,        \* the data directories that exist on disk
    config_importado,   \* the module config has been executed
    errors,             \* validate_config: errors
    stdout,             \* what has been printed
    score_calidad,      \* calcular_score_calidad: the returned score, once returned
    objetos,            \* the dict objects by identity: the TENDENCIAS_DEFAULT of the module, then those created for st.session_state['tendencias']
    session_state,      \* st.session_state: under 'tendencias', the identity of a dict object
    tendencias_script,  \* main (dashboard): tendencias, the identity obtener_tendencias returned
    uploaded_json,      \* the file held by the st.file_uploader of the page, None when empty; every run reads it from its start
    rerun,              \* st.rerun() has been called: the script is about to run again
    mensajes,           \* the st.success and st.error shown by the last run of the page, and the exception that ended it
    config_path,        \* config_tendencias.json as cargar_tendencias_personalizadas found it
    tendencias_personalizadas,  \* main (command line): what cargar_tendencias_personalizadas returned
    salida,             \* cargar_tendencias_personalizadas: what it printed
    archivos,           \* the workbooks found in the input folder, or uploaded in the sidebar
    all_data,           \* all_data: the tables appended, one per workbook that was read
    df_consolidado,     \* df_consolidado: the rows the consolidating function returned
    cargador,           \* the consolidating function that has run, "" before
    excepcion,          \* the exception that ended the consolidating function, "" when it returned
    matriz_programas,   \* the matrix programa x tendencia built from df_consolidado
    extraido,           \* the tables of the program as ExcelExtractor.extract_all() read them from the workbook
    tematicas_programa, \* analyze_programa: the returned dict
    entrada_normalizar, \* the text or the column name given to a normalizer
    normalizador,       \* the normalizer applied, "" before
    normalizados,       \* what the normalizer returned, applied to the input and then to what it returned
    df_nucleos,         \* the cells of the column Nucleos tematicos of the consolidated table, row by row
    analisis_cobertura, \* the coverage analysis that has run, "" before
    resultados_cobertura, \* the dict the coverage analysis returned
    df_por_asignatura,  \* df_por_asignatura / df_asig: one row per subject, with its name and the terms of its joined text
    analisis_nlp,       \* the text mining that has run, "" before
    resultados_nlp,     \* the dict the text mining returned
    excel_files,        \* main (run_analysis.py): excel_files, the workbooks of the input folder in the order of glob
    idx,                \* main: the workbooks the loop has passed
    all_results,        \* main: all_results
    errores,            \* main: errors
    registro,           \* the workbooks process_single_program logged, one entry per call
    consolidados,       \* the consolidated outputs main has generated
    fase                \* main: where it stands, "" before it starts

varsDetect == <<text, extract_context, resultados>>

varsCorpus == <<records, tendencias, df_matriz, resultados_tendencias, resultados_tend>>

varsQuality == <<programa_data, reporte>>

varsNivel == <<Verbo_RA, Nivel_Dominio, niveles_ra, verbo_coherente>>

varsConfig == <<quality_weights, directorios, config_importado, errors, stdout, score_calidad>>

varsDict == <<objetos, session_state, tendencias_script, uploaded_json, rerun, mensajes,
              config_path, tendencias_personalizadas, salida>>
varsConsolida == <<archivos, all_data, df_consolidado, cargador, excepcion, matriz_programas>>
varsData == <<extraido, tematicas_programa>>
varsNormal == <<entrada_normalizar, normalizador, normalizados>>
varsCobertura == <<df_nucleos, analisis_cobertura, resultados_cobertura>>
varsNlp == <<df_por_asignatura, analisis_nlp, resultados_nlp>>
varsLote == <<excel_files, idx, all_results, errores, registro, consolidados, fase>>

vars == <<text, tematicas_config, extract_context, resultados, records, tendencias,
          df_matriz, resultados_tendencias, resultados_tend, programa_data, reporte,
          Verbo_RA, Nivel_Dominio, niveles_ra, verbo_coherente,
          quality_weights, directorios, config_importado, errors, stdout, score_calidad,
          objetos, session_state, tendencias_script, uploaded_json, rerun, mensajes,
          config_path, tendencias_personalizadas, salida,
          archivos, all_data, df_consolidado, cargador, excepcion, matriz_programas,
          extraido, tematicas_programa,
          entrada_normalizar, normalizador, normalizados,
          df_nucleos, analisis_cobertura, resultados_cobertura,
          df_por_asignatura, analisis_nlp, resultados_nlp,
          excel_files, idx, all_results, errores, registro, consolidados, fase>>

NaN == <<"NaN">>
None == [None |-> TRUE]

isna(x) == x = NaN

----------------------------------------------------------------------------
(* Characters *)

\* Characters matched by \w (Python 3 str patterns are Unicode-aware).
WordChars == {"a", "b", "c", "A", "B", "Á", "á"}

IsWord(c) == c \in WordChars

IsSpace(c) == c \in {" ", "\n"}

\* str.lower() on one character.
LowerChar(c) ==
    CASE c = "A" -> "a"
      [] c = "B" -> "b"
      [] c = "C" -> "c"
      [] c = "D" -> "d"
      [] c = "E" -> "e"
      [] c = "P" -> "p"
      [] c = "R" -> "r"
      [] c = "Á" -> "á"
      [] OTHER -> c

lower(s) == [i \in 1..Len(s) |-> LowerChar(s[i])]

\* The replacements table of _normalize_text, applied to one character.
ReplaceChar(c) ==
    CASE c = "á" -> "a"
      [] c = "é" -> "e"
      [] c = "í" -> "i"
      [] c = "ó" -> "o"
      [] c = "ú" -> "u"
      [] c = "ñ" -> "n"
      [] c = "ü" -> "u"
      [] OTHER -> c

\* Unicode code points, the order sorted() uses on str.
CodePoint(c) ==
    CASE c = "\n" -> 10
      [] c = " " -> 32
      [] c = "." -> 46
      [] c = "A" -> 65
      [] c = "B" -> 66
      [] c = "a" -> 97
      [] c = "b" -> 98
      [] c = "c" -> 99
      [] c = "Á" -> 193
      [] c = "á" -> 225

RECURSIVE StrLess(_, _)
\* s < t for Python str: lexicographic by code point.
StrLess(s, t) ==
    IF t = <<>> THEN FALSE
    ELSE IF s = <<>> THEN TRUE
    ELSE IF s[1] # t[1] THEN CodePoint(s[1]) < CodePoint(t[1])
    ELSE StrLess(Tail(s), Tail(t))

RECURSIVE sorted(_)
\* sorted(list(S)) for a set S of str.
sorted(S) ==
    IF S = {} THEN <<>>
    ELSE LET m == CHOOSE x \in S : \A y \in S \ {x} : StrLess(x, y)
         IN <<m>> \o sorted(S \ {m})

ToSet(seq) == {seq[i] : i \in 1..Len(seq)}

\* s[i:j] of Python on 0-based offsets i <= j <= len(s).
Slice(s, i, j) == SubSeq(s, i + 1, j)

Max(a, b) == IF a >= b THEN a ELSE b
Min(a, b) == IF a <= b THEN a ELSE b

\* str.strip(): leading and trailing whitespace removed.
strip(s) ==
    LET keep == {i \in 1..Len(s) : ~IsSpace(s[i])}
    IN IF keep = {} THEN <<>>
       ELSE SubSeq(s, CHOOSE i \in keep : \A j \in keep : i <= j,
                      CHOOSE i \in keep : \A j \in keep : i >= j)

\* The 0-based offsets at which needle occurs in s (needle in s, str.find).
Occurrences(needle, s) ==
    {p \in 0..(Len(s) - Len(needle)) :
        \A j \in 1..Len(needle) : s[p + j] = needle[j]}

Contains(needle, s) == Occurrences(needle, s) # {}

----------------------------------------------------------------------------
(* ThematicDetector *)

\* _normalize_text with the accent replacements left out.
_normalize_text_lower_only(t) ==
    IF isna(t) THEN <<>>
    ELSE [i \in 1..Len(t) |-> LowerChar(t[i])]

_normalize_text(t) ==
    IF isna(t) THEN <<>>
    ELSE [i \in 1..Len(t) |-> ReplaceChar(LowerChar(t[i]))]

\* \b at 0-based offset p of s.
WordBoundary(s, p) ==
    LET before == p >= 1 /\ IsWord(s[p])
        after == p < Len(s) /\ IsWord(s[p + 1])
    IN before # after

\* MatchesAt for the pattern re.escape(kw) + r'\w*', the \b left out.
MatchesAt_unanchored(kw, s, p) ==
    /\ p + Len(kw) <= Len(s)
    /\ \A j \in 1..Len(kw) : s[p + j] = kw[j]

\* Whether  \b + re.escape(kw)  matches at offset p of s.
MatchesAt(kw, s, p) ==
    /\ WordBoundary(s, p)
    /\ p + Len(kw) <= Len(s)
    /\ \A j \in 1..Len(kw) : s[p + j] = kw[j]

\* The end offset of the greedy \w* that starts at offset e.
WordRunEnd(s, e) ==
    CHOOSE q \in e..Len(s) :
        /\ \A j \in (e + 1)..q : IsWord(s[j])
        /\ q = Len(s) \/ ~IsWord(s[q + 1])

RECURSIVE findall_from(_, _, _)
\* re.findall(r'\b' + re.escape(kw) + r'\w*', s), scanning from offset p:
\* leftmost matches, none overlapping the one before it.
findall_from(kw, s, p) ==
    IF p > Len(s) THEN <<>>
    ELSE IF MatchesAt(kw, s, p)
         THEN LET e == WordRunEnd(s, p + Len(kw))
              IN <<Slice(s, p, e)>> \o findall_from(kw, s, IF e > p THEN e ELSE p + 1)
         ELSE findall_from(kw, s, p + 1)

findall(kw, s) == findall_from(kw, s, 0)

\* _extract_context without the marks of truncation.
_extract_context_sin_marcas(t, keyword, window) ==
    LET text_normalized == _normalize_text(t)
        keyword_normalized == _normalize_text(keyword)
        positions == Occurrences(keyword_normalized, text_normalized)
    IN IF positions = {} THEN <<>>
       ELSE LET pos == CHOOSE p \in positions : \A q \in positions : p <= q
                start == Max(0, pos - window)
                end == Min(Len(t), pos + Len(keyword) + window)
            IN strip(Slice(t, start, end))

_extract_context(t, keyword, window) ==
    LET text_normalized == _normalize_text(t)
        keyword_normalized == _normalize_text(keyword)
        positions == Occurrences(keyword_normalized, text_normalized)
    IN IF positions = {} THEN <<>>
       ELSE LET pos == CHOOSE p \in positions : \A q \in positions : p <= q
                start == Max(0, pos - window)
                end == Min(Len(t), pos + Len(keyword) + window)
                context == Slice(t, start, end)
                pre == IF start > 0 THEN <<".", ".", ".">> ELSE <<>>
                post == IF end < Len(t) THEN <<".", ".", ".">> ELSE <<>>
            IN strip(pre \o context \o post)

RECURSIVE encontradas(_, _)
\* The list keywords_encontradas after the keyword loop, before deduplication.
encontradas(keywords, s) ==
    IF keywords = <<>> THEN <<>>
    ELSE findall(_normalize_text(Head(keywords)), s) \o encontradas(Tail(keywords), s)

RECURSIVE contextos(_, _, _)
\* The list contextos after the keyword loop: the context of the first keyword
\* that matched and whose context is not empty.
contextos(keywords, t, window) ==
    IF keywords = <<>> THEN <<>>
    ELSE LET kw == Head(keywords)
             matches == findall(_normalize_text(kw), _normalize_text(t))
             ctx == _extract_context(t, kw, window)
         IN IF matches # <<>> /\ ctx # <<>> THEN <<ctx>>
            ELSE contextos(Tail(keywords), t, window)

\* detect_tematica counting the matches without removing duplicates.
detect_tematica_no_dedup(t, keywords, with_context, window) ==
    LET all == encontradas(keywords, _normalize_text(t))
        ctxs == IF with_context THEN contextos(keywords, t, window) ELSE <<>>
    IN [presente |-> Len(all) > 0,
        num_coincidencias |-> Len(all),
        keywords_encontradas |-> sorted(ToSet(all)),
        contexto |-> IF ctxs # <<>> THEN ctxs[1] ELSE <<>>]

detect_tematica(t, keywords, with_context, window) ==
    LET found == ToSet(encontradas(keywords, _normalize_text(t)))
        num_coincidencias == Cardinality(found)
        ctxs == IF with_context THEN contextos(keywords, t, window) ELSE <<>>
    IN [presente |-> num_coincidencias > 0,
        num_coincidencias |-> num_coincidencias,
        keywords_encontradas |-> sorted(found),
        contexto |-> IF ctxs # <<>> THEN ctxs[1] ELSE <<>>]

\* detect_in_text returning an empty dict for an empty text.
detect_in_text_empty_dict(t, config, with_context, window) ==
    IF isna(t) \/ t = <<>>
    THEN <<>>
    ELSE [tematica \in DOMAIN config |->
            detect_tematica(t, config[tematica].keywords, with_context, window)]

detect_in_text(t, config, with_context, window) ==
    IF isna(t) \/ t = <<>>
    THEN [tematica \in DOMAIN config |->
            [presente |-> FALSE, num_coincidencias |-> 0,
             keywords_encontradas |-> <<>>, contexto |-> <<>>]]
    ELSE [tematica \in DOMAIN config |->
            detect_tematica(t, config[tematica].keywords, with_context, window)]

----------------------------------------------------------------------------
(* ThematicDetector.analyze_programa and generate_thematic_matrix *)

\* The order of the keys of the dictionaries (dict iteration order).
TematicasOrden == <<"SOSTENIBILIDAD", "INTELIGENCIA ARTIFICIAL">>

\* The programs whose workbooks were loaded, sorted by name.
Programas == <<"P1", "P2">>

\* str(x) of a cell.
str(x) == IF isna(x) THEN <<"n", "a", "n">> ELSE x

\* Series.fillna('') on a cell.
fillna(x) == IF isna(x) THEN <<>> ELSE x

\* The rows of one sheet of one program.
hoja_de(rows, programa, hoja) ==
    SelectSeq(rows, LAMBDA r : r.Programa = programa /\ r.hoja = hoja)

\* concat_texts of detect_in_dataframe on one row and one text column.
concat_texts(row) == IF isna(row.texto) THEN <<>> ELSE str(row.texto)

\* The columns {tematica}_presente and {tematica}_coincidencias of one row,
\* filled from the detection on the text of the row.
columnas_tematicas(deteccion, config) ==
    [presente |-> [tm \in DOMAIN config |-> deteccion[tm].presente],
     coincidencias |-> [tm \in DOMAIN config |-> deteccion[tm].num_coincidencias]]

\* detect_in_dataframe: the columns added to each row.
detect_in_dataframe(df, config) ==
    [i \in 1..Len(df) |->
        columnas_tematicas(detect_in_text(concat_texts(df[i]), config, FALSE, 0), config)]

RECURSIVE suma_coincidencias(_, _, _)
\* df[f'{tematica}_coincidencias'].sum() over the first n rows.
suma_coincidencias(df, tematica, n) ==
    IF n = 0 THEN 0
    ELSE suma_coincidencias(df, tematica, n - 1) + df[n].coincidencias[tematica]

RECURSIVE suma_presente(_, _, _)
\* df[f'{tematica}_presente'].sum() over the first n rows.
suma_presente(df, tematica, n) ==
    IF n = 0 THEN 0
    ELSE suma_presente(df, tematica, n - 1) + (IF df[n].presente[tematica] THEN 1 ELSE 0)

\* frecuencia with the _coincidencias column summed in place of _presente.
frecuencia_coincidencias(df, tematica) == suma_coincidencias(df, tematica, Len(df))

\* freq_comp / freq_ra of analyze_programa: 0 for an empty table.
frecuencia(df, tematica) == suma_presente(df, tematica, Len(df))

\* resumen[tematica] of analyze_programa.
resumen_tematica(freq_comp, freq_ra) ==
    [presente |-> freq_comp + freq_ra > 0,
     frecuencia_competencias |-> freq_comp,
     frecuencia_ra |-> freq_ra,
     total_coincidencias |-> freq_comp + freq_ra]

\* The dict returned by analyze_programa, given its resumen.
analisis_de(programa, resumen, config) ==
    [programa |-> programa,
     tematicas_presentes |->
        SelectSeq(TematicasOrden, LAMBDA tm : tm \in DOMAIN config /\ resumen[tm].presente),
     num_tematicas |-> Cardinality({tm \in DOMAIN config : resumen[tm].presente}),
     resumen |-> resumen]

\* The resumen of analyze_programa from the two tables after detection.
resumen_de(df_comp, df_ra, config) ==
    [tm \in DOMAIN config |->
        resumen_tematica(frecuencia(df_comp, tm), frecuencia(df_ra, tm))]

analyze_programa(rows, programa, config) ==
    analisis_de(programa,
                resumen_de(detect_in_dataframe(hoja_de(rows, programa, "competencias"), config),
                           detect_in_dataframe(hoja_de(rows, programa, "resultados_aprendizaje"),
                                               config),
                           config),
                config)

RECURSIVE suma_filas(_, _, _)
\* df_matriz[tematica].sum() over the first n rows.
suma_filas(filas, tematica, n) ==
    IF n = 0 THEN 0 ELSE suma_filas(filas, tematica, n - 1) + filas[n].tematicas[tematica]

RECURSIVE suma_columna(_, _, _)
\* df_matriz[columna].sum() over the first n rows, columna one of the two counts.
suma_columna(filas, columna, n) ==
    IF n = 0 THEN 0 ELSE suma_columna(filas, columna, n - 1) + filas[n][columna]

\* The row of a program in the matrix.
fila_de(analisis, competencias, resultados_aprendizaje, config) ==
    [Programa |-> analisis.programa,
     Competencias |-> competencias,
     Resultados_Aprendizaje |-> resultados_aprendizaje,
     tematicas |-> [tm \in DOMAIN config |-> analisis.resumen[tm].total_coincidencias]]

\* The row of totals appended to the matrix.
totales(filas, config) ==
    [Programa |-> "TOTAL",
     Competencias |-> suma_columna(filas, "Competencias", Len(filas)),
     Resultados_Aprendizaje |-> suma_columna(filas, "Resultados_Aprendizaje", Len(filas)),
     tematicas |-> [tm \in DOMAIN config |-> suma_filas(filas, tm, Len(filas))]]

\* pd.concat([df_matriz, df_totales]).
con_totales(filas, config) == [filas |-> Append(filas, totales(filas, config))]

generate_thematic_matrix(rows, config) ==
    con_totales([i \in 1..Len(Programas) |->
                    fila_de(analyze_programa(rows, Programas[i], config),
                            Len(hoja_de(rows, Programas[i], "competencias")),
                            Len(hoja_de(rows, Programas[i], "resultados_aprendizaje")),
                            config)],
                config)

----------------------------------------------------------------------------
(* analisis_tendencias_globales (batch) and analizar_tendencias (dashboard) *)

\* Texto_Completo of preparar_textos / procesar_archivos: the four text fields,
\* of which the rows carry the outcome text (the other three are empty cells),
\* joined by blanks, lower-cased and stripped.
Texto_Completo(row) ==
    strip(lower(fillna(row.texto) \o <<" ">> \o fillna(NaN) \o <<" ">>
                \o fillna(NaN) \o <<" ">> \o fillna(NaN)))

\* df['Programa'].unique(): the programs in order of first appearance.
RECURSIVE unique_programas(_, _)
unique_programas(rows, n) ==
    IF n = 0 THEN <<>>
    ELSE LET antes == unique_programas(rows, n - 1)
         IN IF rows[n].Programa \in ToSet(antes) THEN antes
            ELSE Append(antes, rows[n].Programa)

RECURSIVE primera_keyword(_, _, _)
\* The index of the first keyword with  keyword.lower() in texto, 0 when none:
\* the loop over the keywords ends at the first hit (break).
primera_keyword(keywords, texto, i) ==
    IF i > Len(keywords) THEN 0
    ELSE IF Contains(lower(keywords[i]), texto) THEN i
    ELSE primera_keyword(keywords, texto, i + 1)

\* What one row adds to its program's cell of a trend: 1 when a keyword is
\* found ("solo contar una vez por registro"), else 0.
aporte(keywords, texto) == IF primera_keyword(keywords, texto, 1) > 0 THEN 1 ELSE 0

RECURSIVE matriz_registros(_, _, _, _)
\* The matrix programa x tendencia after the first n rows.
matriz_registros(rows, programas, tends, n) ==
    IF n = 0 THEN [p \in ToSet(programas) |-> [tid \in DOMAIN tends |-> 0]]
    ELSE LET m == matriz_registros(rows, programas, tends, n - 1)
             texto == lower(str(Texto_Completo(rows[n])))
         IN [p \in ToSet(programas) |-> [tid \in DOMAIN tends |->
                IF p = rows[n].Programa
                THEN m[p][tid] + aporte(tends[tid].keywords, texto)
                ELSE m[p][tid]]]

\* The fields of a row in which the keyword appears.
campos_de(row, kw) ==
    (IF Contains(lower(kw), lower(str(row.texto))) THEN <<"RA">> ELSE <<>>)
    \o (IF Contains(lower(kw), lower(str(NaN))) THEN <<"Nucleos">> ELSE <<>>)
    \o (IF Contains(lower(kw), lower(str(NaN))) THEN <<"Indicadores">> ELSE <<>>)

RECURSIVE detalle_registros(_, _, _, _, _)
\* detalle[tendencia][programa] after the first n rows; the batch script
\* appends an entry only when campos is not empty.
detalle_registros(rows, programas, tends, n, solo_con_campos) ==
    IF n = 0 THEN [tid \in DOMAIN tends |-> [p \in ToSet(programas) |-> <<>>]]
    ELSE LET d == detalle_registros(rows, programas, tends, n - 1, solo_con_campos)
             texto == lower(str(Texto_Completo(rows[n])))
         IN [tid \in DOMAIN tends |-> [p \in ToSet(programas) |->
                LET i == primera_keyword(tends[tid].keywords, texto, 1)
                IN IF p = rows[n].Programa /\ i > 0
                      /\ (~solo_con_campos \/ campos_de(rows[n], tends[tid].keywords[i]) # <<>>)
                   THEN Append(d[tid][p],
                               [keyword |-> tends[tid].keywords[i],
                                campos |-> campos_de(rows[n], tends[tid].keywords[i]),
                                asignatura |-> NaN])
                   ELSE d[tid][p]]]

\* matriz[tid].sum(): the column of a trend summed over the programs.
RECURSIVE suma_tendencia(_, _, _, _)
suma_tendencia(matriz, programas, tid, n) ==
    IF n = 0 THEN 0
    ELSE suma_tendencia(matriz, programas, tid, n - 1) + matriz[programas[n]][tid]

\* (matriz[tid] > 0).sum(): the programs with the trend.
programas_con(matriz, programas, tid) ==
    Cardinality({p \in ToSet(programas) : matriz[p][tid] > 0})

\* The gap list taken as the trends missing from some program.
ausentes_en_algun_programa(matriz, programas, tends) ==
    SelectSeq(TematicasOrden,
              LAMBDA tid : tid \in DOMAIN tends
                           /\ \E p \in ToSet(programas) : matriz[p][tid] = 0)

\* tendencias_ausentes of the batch script: the columns whose sum is 0.
tendencias_ausentes(matriz, programas, tends) ==
    SelectSeq(TematicasOrden,
              LAMBDA tid : tid \in DOMAIN tends
                           /\ suma_tendencia(matriz, programas, tid, Len(programas)) = 0)

\* programas_con / total * 100, kept as an exact fraction.
porcentaje(n, total) == [num |-> n * 100, den |-> total]

analisis_tendencias_globales(df, tends) ==
    LET programas == unique_programas(df, Len(df))
        matriz_tendencias == matriz_registros(df, programas, tends, Len(df))
    IN [matriz_tendencias |-> matriz_tendencias,
        cobertura_porcentaje |-> [tid \in DOMAIN tends |->
            porcentaje(programas_con(matriz_tendencias, programas, tid), Len(programas))],
        detalle_tendencias |-> detalle_registros(df, programas, tends, Len(df), TRUE),
        tendencias_ausentes |-> tendencias_ausentes(matriz_tendencias, programas, tends)]

analizar_tendencias(df, tends) ==
    LET programas == unique_programas(df, Len(df))
        matriz == matriz_registros(df, programas, tends, Len(df))
        cobertura == [tid \in DOMAIN tends |->
            porcentaje(programas_con(matriz, programas, tid), Len(programas))]
    IN [matriz |-> matriz,
        cobertura |-> cobertura,
        detalle |-> detalle_registros(df, programas, tends, Len(df), FALSE),
        ausentes |-> SelectSeq(TematicasOrden,
                               LAMBDA tid : tid \in DOMAIN tends /\ cobertura[tid].num = 0)]

----------------------------------------------------------------------------
(* CurricularAnalyzer: the quality indicators of one program.               *)
(* Percentages and scores are integers counting tenths; a weight counts     *)
(* hundredths. A calcular_ operator gives the set of the dicts the method   *)
(* can return: one dict, or several when a value to be rounded lies exactly *)
(* halfway between two tenths, where the binary representation of the float *)
(* decides the direction.                                                   *)

\* The characters of a string literal.
Chars(s) == [i \in 1..Len(s) |-> SubSeq(s, i, i)]

RECURSIVE sum(_)
sum(s) == IF s = <<>> THEN 0 ELSE Head(s) + sum(Tail(s))

\* round(num / den) of a non-negative fraction: the nearest integer, either
\* neighbour when the fraction is exactly halfway between them.
round(num, den) ==
    IF 2 * (num % den) < den THEN {num \div den}
    ELSE IF 2 * (num % den) > den THEN {(num \div den) + 1}
    ELSE {num \div den, (num \div den) + 1}

TAXONOMIA_BLOOM ==
    << [nombre |-> "RECORDAR", nivel |-> 1,
        verbos |-> <<"definir", "listar", "recordar", "identificar", "nombrar",
                     "reconocer", "reproducir", "seleccionar", "enumerar">>],
       [nombre |-> "COMPRENDER", nivel |-> 2,
        verbos |-> <<"explicar", "describir", "interpretar", "resumir", "clasificar",
                     "comparar", "ejemplificar", "parafrasear", "ilustrar">>],
       [nombre |-> "APLICAR", nivel |-> 3,
        verbos |-> <<"aplicar", "ejecutar", "implementar", "usar", "utilizar",
                     "demostrar", "resolver", "calcular", "operar">>],
       [nombre |-> "ANALIZAR", nivel |-> 4,
        verbos |-> <<"analizar", "diferenciar", "organizar", "atribuir", "comparar",
                     "contrastar", "examinar", "investigar", "categorizar">>],
       [nombre |-> "EVALUAR", nivel |-> 5,
        verbos |-> <<"evaluar", "criticar", "juzgar", "verificar", "validar",
                     "argumentar", "defender", "apoyar", "justificar">>],
       [nombre |-> "CREAR", nivel |-> 6,
        verbos |-> <<"crear", "diseñar", "construir", "planificar", "producir",
                     "generar", "desarrollar", "formular", "proponer">>] >>

TIPOS_SABER == <<"Saber", "SaberHacer", "SaberSer">>

QUALITY_WEIGHTS ==
    [completitud |-> 25,
     complejidad_cognitiva |-> 20,
     balance_tipo_saber |-> 15,
     diversidad_metodologica |-> 15,
     cobertura_competencias |-> 15,
     calidad_redaccion |-> 10]

COMPLEJIDAD_THRESHOLDS ==
    [BASICO |-> <<1, 2>>, INTERMEDIO |-> <<3, 4>>, AVANZADO |-> <<5, 6>>]

\* df.empty
empty(df) == df = <<>>

\* The values of a column that are not NaN, in row order (Series.dropna()).
dropna(df, columna) ==
    LET fila == SelectSeq(df, LAMBDA r : ~isna(r[columna]))
    IN [i \in 1..Len(fila) |-> fila[i][columna]]

\* tipo_counts.get(tipo, 0)
tipo_count(ra, tipo) ==
    Cardinality({i \in 1..Len(ra) : ra[i]["TipoSaber"] = Chars(tipo)})

\* round(np.std(valores), 1) of three values: the r with
\* r - 1/2 <= sqrt(x) / 3 < r + 1/2, where x / 9 is the variance.
round_std(x) ==
    CHOOSE r \in 0..1000 :
        /\ (r = 0 \/ 9 * (2 * r - 1) * (2 * r - 1) <= 4 * x)
        /\ 4 * x < 9 * (2 * r + 1) * (2 * r + 1)

\* 9 times the variance of three values.
varianza9(v) ==
    3 * (v[1] * v[1] + v[2] * v[2] + v[3] * v[3])
    - (v[1] + v[2] + v[3]) * (v[1] + v[2] + v[3])

\* balance_de with the threshold of the deviation at 20.
balance_de_umbral_20(valores) ==
    [Saber |-> valores[1],
     SaberHacer |-> valores[2],
     SaberSer |-> valores[3],
     desviacion_estandar |-> round_std(varianza9(valores)),
     balanceado |-> varianza9(valores) < 360000]

\* The dict of calcular_balance_tipo_saber from the rounded percentages.
balance_de(valores) ==
    [Saber |-> valores[1],
     SaberHacer |-> valores[2],
     SaberSer |-> valores[3],
     desviacion_estandar |-> round_std(varianza9(valores)),
     balanceado |-> varianza9(valores) < 90000]

calcular_balance_tipo_saber(ra) ==
    IF empty(ra)
    THEN {[Saber |-> 0, SaberHacer |-> 0, SaberSer |-> 0,
           desviacion_estandar |-> 0, balanceado |-> TRUE]}
    ELSE {balance_de(<<saber, saber_hacer, saber_ser>>) :
            saber \in round(tipo_count(ra, TIPOS_SABER[1]) * 1000, Len(ra)),
            saber_hacer \in round(tipo_count(ra, TIPOS_SABER[2]) * 1000, Len(ra)),
            saber_ser \in round(tipo_count(ra, TIPOS_SABER[3]) * 1000, Len(ra))}

\* verbos_nivel = [v.lower() for v in config['verbos']], for each level.
verbos_nivel ==
    [k \in 1..Len(TAXONOMIA_BLOOM) |->
        [j \in 1..Len(TAXONOMIA_BLOOM[k].verbos) |->
            lower(Chars(TAXONOMIA_BLOOM[k].verbos[j]))]]

RECURSIVE nivel_en_taxonomia(_, _)
\* The nivel of the first level of TAXONOMIA_BLOOM, from the k-th on, whose
\* verbs, lower-cased, include verbo_lower; 0 when none does.
nivel_en_taxonomia(verbo_lower, k) ==
    IF k > Len(TAXONOMIA_BLOOM) THEN 0
    ELSE IF verbo_lower \in ToSet(verbos_nivel[k])
         THEN TAXONOMIA_BLOOM[k].nivel
         ELSE nivel_en_taxonomia(verbo_lower, k + 1)

\* The level inferred from the declared nivel_dominio, 2 by default.
nivel_por_dominio(nivel_dominio) ==
    IF isna(nivel_dominio) THEN 2
    ELSE LET nivel_str == lower(str(nivel_dominio))
         IN IF Contains(Chars("analisis"), nivel_str) \/ Contains(Chars("analis"), nivel_str)
            THEN 4
            ELSE IF Contains(Chars("evalua"), nivel_str)
                    \/ Contains(Chars("critica"), nivel_str)
            THEN 5
            ELSE IF Contains(Chars("crea"), nivel_str) \/ Contains(Chars("diseña"), nivel_str)
            THEN 6
            ELSE IF Contains(Chars("aplic"), nivel_str) THEN 3
            ELSE IF Contains(Chars("comprend"), nivel_str)
                    \/ Contains(Chars("entiend"), nivel_str)
            THEN 2
            ELSE 2

\* The level found in the taxonomy, else the level inferred from the dominio.
nivel_o_dominio(en_taxonomia, nivel_dominio) ==
    IF en_taxonomia > 0 THEN en_taxonomia ELSE nivel_por_dominio(nivel_dominio)

\* _get_nivel_taxonomico without the early return for a missing verb.
_get_nivel_taxonomico_sin_isna(verbo, nivel_dominio) ==
    nivel_o_dominio(nivel_en_taxonomia(strip(lower(str(verbo))), 1), nivel_dominio)

_get_nivel_taxonomico(verbo, nivel_dominio) ==
    IF isna(verbo) THEN 1
    ELSE nivel_o_dominio(nivel_en_taxonomia(strip(lower(str(verbo))), 1), nivel_dominio)

\* sum(1 for n in niveles if umbral[0] <= n <= umbral[1])
en_umbral(niveles, umbral) ==
    Cardinality({i \in 1..Len(niveles) : umbral[1] <= niveles[i] /\ niveles[i] <= umbral[2]})

\* The dict of calcular_complejidad_cognitiva from the rounded percentages
\* and the rounded mean.
complejidad_de(basico, intermedio, avanzado, nivel_promedio) ==
    [Basico |-> basico,
     Intermedio |-> intermedio,
     Avanzado |-> avanzado,
     nivel_promedio |-> nivel_promedio,
     indice_complejidad |-> IF nivel_promedio > 0 THEN (nivel_promedio - 10) * 20 ELSE 0]

\* The dicts of calcular_complejidad_cognitiva from the niveles of the rows.
complejidad_niveles(niveles) ==
    {complejidad_de(basico, intermedio, avanzado, nivel_promedio) :
        basico \in round(en_umbral(niveles, COMPLEJIDAD_THRESHOLDS.BASICO) * 1000,
                         Len(niveles)),
        intermedio \in round(en_umbral(niveles, COMPLEJIDAD_THRESHOLDS.INTERMEDIO) * 1000,
                             Len(niveles)),
        avanzado \in round(en_umbral(niveles, COMPLEJIDAD_THRESHOLDS.AVANZADO) * 1000,
                           Len(niveles)),
        nivel_promedio \in round(sum(niveles) * 10, Len(niveles))}

calcular_complejidad_cognitiva(ra) ==
    IF empty(ra)
    THEN {[Basico |-> 0, Intermedio |-> 0, Avanzado |-> 0,
           nivel_promedio |-> 0, indice_complejidad |-> 0]}
    ELSE complejidad_niveles(
            [i \in 1..Len(ra) |->
                _get_nivel_taxonomico(ra[i]["Verbo RA"], ra[i]["Nivel Dominio"])])

\* The dicts of calcular_cobertura_competencias from ra_por_comp, given as the
\* non-NaN values of the column.
cobertura_de(total_comp, valores) ==
    {[total_competencias |-> total_comp,
      competencias_con_ra |-> Cardinality(ToSet(valores)),
      porcentaje_cobertura |-> porcentaje_cobertura,
      promedio_ra_por_competencia |-> promedio_ra] :
        porcentaje_cobertura \in round(Cardinality(ToSet(valores)) * 1000, total_comp),
        promedio_ra \in IF valores = <<>> THEN {0}
                        ELSE round(Len(valores) * 10, Cardinality(ToSet(valores)))}

calcular_cobertura_competencias(competencias, ra) ==
    IF empty(competencias) \/ empty(ra)
    THEN {[total_competencias |-> Len(competencias),
           competencias_con_ra |-> 0,
           porcentaje_cobertura |-> 0,
           promedio_ra_por_competencia |-> 0]}
    ELSE cobertura_de(Len(competencias), dropna(ra, "Competencia por desarrollar"))

\* The number of values equal to e.
cuenta(valores, e) == Cardinality({i \in 1..Len(valores) : valores[i] = e})

\* The index at which e first appears.
primera_aparicion(valores, e) ==
    CHOOSE i \in 1..Len(valores) : valores[i] = e /\ \A j \in 1..(i - 1) : valores[j] # e

RECURSIVE most_common(_, _, _)
\* Counter(valores).most_common(n) restricted to the elements of restantes:
\* by decreasing count, elements of equal count in order of first appearance.
most_common(valores, restantes, n) ==
    IF n = 0 \/ restantes = {} THEN <<>>
    ELSE LET e == CHOOSE x \in restantes : \A y \in restantes :
                    \/ cuenta(valores, x) > cuenta(valores, y)
                    \/ /\ cuenta(valores, x) = cuenta(valores, y)
                       /\ primera_aparicion(valores, x) <= primera_aparicion(valores, y)
         IN << <<e, cuenta(valores, e)>> >> \o most_common(valores, restantes \ {e}, n - 1)

metodologias_activas_keywords ==
    <<"abp", "aprendizaje basado en proyectos", "caso", "estudio de caso",
      "problema", "aprendizaje basado en problemas", "proyecto", "simulación",
      "debate", "taller">>

\* any(keyword in estrategia_lower for keyword in metodologias_activas_keywords)
es_activa(estrategia) ==
    \E k \in 1..Len(metodologias_activas_keywords) :
        Contains(Chars(metodologias_activas_keywords[k]), lower(str(estrategia)))

\* The dicts of calcular_diversidad_metodologica from the strategies that are
\* not NaN.
diversidad_de(estrategias) ==
    {[num_estrategias_unicas |-> Cardinality(ToSet(estrategias)),
      estrategias_mas_frecuentes |-> most_common(estrategias, ToSet(estrategias), 5),
      porcentaje_metodologias_activas |-> porcentaje_activas] :
        porcentaje_activas \in
            IF Len(estrategias) > 0
            THEN round(Cardinality({i \in 1..Len(estrategias) : es_activa(estrategias[i])})
                       * 1000, Len(estrategias))
            ELSE {0}}

calcular_diversidad_metodologica(estrategias_micro) ==
    IF empty(estrategias_micro)
    THEN {[num_estrategias_unicas |-> 0,
           estrategias_mas_frecuentes |-> <<>>,
           porcentaje_metodologias_activas |-> 0]}
    ELSE diversidad_de(dropna(estrategias_micro, "Estrategias de enseñanza aprendizaje"))

\* df.count().sum(): the cells that are not NaN.
filled_cells(df) ==
    sum([i \in 1..Len(df) |-> Cardinality({c \in DOMAIN df[i] : ~isna(df[i][c])})])

\* df.shape[0] * df.shape[1]
total_cells(df) == Len(df) * Cardinality(DOMAIN df[1])

\* The percentage of filled cells, as an exact fraction.
calcular_completitud_df(df) ==
    IF empty(df) THEN [num |-> 0, den |-> 1]
    ELSE [num |-> filled_cells(df) * 100, den |-> total_cells(df)]

\* The dicts of calcular_completitud from the four fractions; the total weighs
\* them by 0.3, 0.4, 0.15 and 0.15.
completitud_de(comp, ra, meso, micro) ==
    {[completitud_competencias |-> c_comp,
      completitud_ra |-> c_ra,
      completitud_estrategias_meso |-> c_meso,
      completitud_estrategias_micro |-> c_micro,
      completitud_total |-> c_total] :
        c_comp \in round(comp.num * 10, comp.den),
        c_ra \in round(ra.num * 10, ra.den),
        c_meso \in round(meso.num * 10, meso.den),
        c_micro \in round(micro.num * 10, micro.den),
        c_total \in round(10 * (30 * comp.num * ra.den * meso.den * micro.den
                                + 40 * ra.num * comp.den * meso.den * micro.den
                                + 15 * meso.num * comp.den * ra.den * micro.den
                                + 15 * micro.num * comp.den * ra.den * meso.den),
                          100 * comp.den * ra.den * meso.den * micro.den)}

calcular_completitud(programa) ==
    completitud_de(calcular_completitud_df(programa.competencias),
                   calcular_completitud_df(programa.resultados_aprendizaje),
                   calcular_completitud_df(programa.estrategias_meso),
                   calcular_completitud_df(programa.estrategias_micro))

\* score_redaccion = 80.0, the placeholder for the quality of the wording.
score_redaccion == 800

\* score_balance: 100 - desviacion * 5, kept within 0 and 100.
score_balance(balance) == Max(0, Min(1000, 1000 - balance.desviacion_estandar * 5))

\* score_diversidad: 8 points per distinct strategy, at most 100.
score_diversidad(diversidad) == Min(1000, diversidad.num_estrategias_unicas * 80)

\* score_total with the five computed indicators only.
score_sin_redaccion(completitud, complejidad, balance, cobertura, diversidad) ==
    completitud.completitud_total * QUALITY_WEIGHTS.completitud
    + complejidad.indice_complejidad * QUALITY_WEIGHTS.complejidad_cognitiva
    + score_balance(balance) * QUALITY_WEIGHTS.balance_tipo_saber
    + score_diversidad(diversidad) * QUALITY_WEIGHTS.diversidad_metodologica
    + cobertura.porcentaje_cobertura * QUALITY_WEIGHTS.cobertura_competencias

\* score_total from the five dicts of indicators, in thousandths.
score_total(completitud, complejidad, balance, cobertura, diversidad) ==
    completitud.completitud_total * QUALITY_WEIGHTS.completitud
    + complejidad.indice_complejidad * QUALITY_WEIGHTS.complejidad_cognitiva
    + score_balance(balance) * QUALITY_WEIGHTS.balance_tipo_saber
    + score_diversidad(diversidad) * QUALITY_WEIGHTS.diversidad_metodologica
    + cobertura.porcentaje_cobertura * QUALITY_WEIGHTS.cobertura_competencias
    + score_redaccion * QUALITY_WEIGHTS.calidad_redaccion

\* The five dicts of indicators of a program, in the order completitud,
\* complejidad, balance, cobertura, diversidad.
indicadores(programa) ==
    calcular_completitud(programa)
    \X calcular_complejidad_cognitiva(programa.resultados_aprendizaje)
    \X calcular_balance_tipo_saber(programa.resultados_aprendizaje)
    \X calcular_cobertura_competencias(programa.competencias,
                                       programa.resultados_aprendizaje)
    \X calcular_diversidad_metodologica(programa.estrategias_micro)

\* round(score_total, 1)
calcular_score_calidad(ind) == round(score_total(ind[1], ind[2], ind[3], ind[4], ind[5]), 100)

\* The dicts generar_reporte_indicadores can return; the indicators it
\* computes again after the score are those the score was computed from.
generar_reporte_indicadores(programa) ==
    UNION {{[programa |-> programa.metadata.programa,
             score_calidad |-> score,
             balance_tipo_saber |-> ind[3],
             complejidad_cognitiva |-> ind[2],
             cobertura_competencias |-> ind[4],
             diversidad_metodologica |-> ind[5],
             completitud |-> ind[1],
             resumen |-> [total_competencias |-> Len(programa.competencias),
                          total_ra |-> Len(programa.resultados_aprendizaje),
                          total_estrategias_meso |-> Len(programa.estrategias_meso),
                          total_estrategias_micro |-> Len(programa.estrategias_micro)]] :
            score \in calcular_score_calidad(ind)} : ind \in indicadores(programa)}

----------------------------------------------------------------------------
(* Inputs of the detector *)

MaxTextLen == 4

context_window == 1

Alphabet == {"a", "b", "Á", " "}

Texts == UNION {[1..n -> Alphabet] : n \in 0..MaxTextLen}

KeywordLists ==
    { <<>>,
      << <<"a">> >>,
      << <<"a">>, <<"a", "b">> >>,
      << <<"Á", "b">> >>,
      << <<"b">>, <<"b", " ", "a">> >> }

Configs ==
    {[t \in {"SOSTENIBILIDAD", "INTELIGENCIA ARTIFICIAL"} |->
        [keywords |-> IF t = "SOSTENIBILIDAD" THEN k1 ELSE k2]] :
        k1 \in KeywordLists, k2 \in {<<>>, << <<"b">> >>}}

----------------------------------------------------------------------------
(* detect_in_text on one text *)

\* No corpus loaded and no analysis of a corpus run.
SinCorpus ==
    /\ records = <<>>
    /\ tendencias = None
    /\ df_matriz = None
    /\ resultados_tendencias = None
    /\ resultados_tend = None

\* No analyzer constructed.
SinPrograma ==
    /\ programa_data = None
    /\ reporte = None

\* No learning outcome taken up.
SinNivel ==
    /\ Verbo_RA = None
    /\ Nivel_Dominio = None
    /\ niveles_ra = <<>>
    /\ verbo_coherente = None

\* The module config is not under examination: its weights are those of
\* QUALITY_WEIGHTS and no call of its validation is followed.
SinConfig ==
    /\ quality_weights = None
    /\ directorios = {}
    /\ config_importado = FALSE
    /\ errors = <<>>
    /\ stdout = <<>>
    /\ score_calidad = <<>>

\* No dashboard session and no loading of a trend dictionary.
SinDict ==
    /\ objetos = <<>>
    /\ session_state = <<>>
    /\ tendencias_script = 0
    /\ uploaded_json = None
    /\ rerun = FALSE
    /\ mensajes = <<>>
    /\ config_path = None
    /\ tendencias_personalizadas = None
    /\ salida = <<>>

\* No workbook consolidated.
SinConsolida ==
    /\ archivos = <<>>
    /\ all_data = <<>>
    /\ df_consolidado = <<>>
    /\ cargador = ""
    /\ excepcion = ""
    /\ matriz_programas = None

\* No program handed to both the analyzer and the detector.
SinData ==
    /\ extraido = None
    /\ tematicas_programa = None

\* No normalizer followed.
SinNormal ==
    /\ entrada_normalizar = NaN
    /\ normalizador = ""
    /\ normalizados = <<>>

\* No coverage analysis followed.
SinCobertura ==
    /\ df_nucleos = <<>>
    /\ analisis_cobertura = ""
    /\ resultados_cobertura = None

\* No text mining followed.
SinNlp ==
    /\ df_por_asignatura = <<>>
    /\ analisis_nlp = ""
    /\ resultados_nlp = None

\* No batch run followed.
SinLote ==
    /\ excel_files = <<>>
    /\ idx = 0
    /\ all_results = <<>>
    /\ errores = 0
    /\ registro = <<>>
    /\ consolidados = {}
    /\ fase = ""

InitDetect ==
    /\ text \in Texts \cup {NaN}
    /\ tematicas_config \in Configs
    /\ extract_context \in BOOLEAN
    /\ resultados = None
    /\ SinCorpus
    /\ SinPrograma
    /\ SinNivel
    /\ SinConfig
    /\ SinDict
    /\ SinConsolida
    /\ SinData
    /\ SinNormal
    /\ SinCobertura
    /\ SinNlp
    /\ SinLote

DetectInText ==
    /\ resultados = None
    /\ resultados' = detect_in_text(text, tematicas_config, extract_context, context_window)
    /\ UNCHANGED <<text, tematicas_config, extract_context>>
    /\ UNCHANGED varsCorpus
    /\ UNCHANGED varsQuality
    /\ UNCHANGED varsNivel
    /\ UNCHANGED varsConfig
    /\ UNCHANGED varsDict
    /\ UNCHANGED varsConsolida
    /\ UNCHANGED varsData
    /\ UNCHANGED varsNormal
    /\ UNCHANGED varsCobertura
    /\ UNCHANGED varsNlp
    /\ UNCHANGED varsLote

NextDetect == DetectInText

SpecDetect == InitDetect /\ [][NextDetect]_vars

----------------------------------------------------------------------------
(* The analyses of a corpus *)

MaxRecords == 2

\* The outcome texts of the rows: a word with "a" inside, an accented
\* upper-case word, two words that start with "a", and an empty cell.
RecordTexts ==
    { <<"b", "a">>, <<"Á", "b">>, <<"a", " ", "a", "b">>, NaN }

Rows == [Programa : ToSet(Programas),
         hoja : {"competencias", "resultados_aprendizaje"},
         texto : RecordTexts]

\* The trend dictionaries: one looks for "SOSTENIBILIDAD" by the keyword "a"
\* and for "INTELIGENCIA ARTIFICIAL" by "c", which no text contains; the
\* other by "ab" and then "a", and by the upper-case accented "Á".
Tendencias ==
    {[tid \in {"SOSTENIBILIDAD", "INTELIGENCIA ARTIFICIAL"} |->
        [keywords |-> IF tid = "SOSTENIBILIDAD" THEN k[1] ELSE k[2]]] :
        k \in {<< << <<"a">> >>, << <<"c">> >> >>,
               << << <<"a", "b">>, <<"a">> >>, << <<"Á">> >> >>}}

InitCorpus ==
    /\ records \in UNION {[1..n -> Rows] : n \in 0..MaxRecords}
    /\ tendencias \in Tendencias
    /\ tematicas_config = tendencias
    /\ df_matriz = None
    /\ resultados_tendencias = None
    /\ resultados_tend = None
    /\ text = NaN
    /\ extract_context = FALSE
    /\ resultados = None
    /\ SinPrograma
    /\ SinNivel
    /\ SinConfig
    /\ SinDict
    /\ SinConsolida
    /\ SinData
    /\ SinNormal
    /\ SinCobertura
    /\ SinNlp
    /\ SinLote

\* run_analysis.main: the matrix of the programs that were processed.
GenerateThematicMatrix ==
    /\ df_matriz = None
    /\ df_matriz' = generate_thematic_matrix(records, tematicas_config)
    /\ UNCHANGED <<records, tendencias, tematicas_config, resultados_tendencias,
                   resultados_tend>>
    /\ UNCHANGED varsDetect
    /\ UNCHANGED varsQuality
    /\ UNCHANGED varsNivel
    /\ UNCHANGED varsConfig
    /\ UNCHANGED varsDict
    /\ UNCHANGED varsConsolida
    /\ UNCHANGED varsData
    /\ UNCHANGED varsNormal
    /\ UNCHANGED varsCobertura
    /\ UNCHANGED varsNlp
    /\ UNCHANGED varsLote

\* analisis_tematico_avanzado.main: returns before the analyses when the
\* consolidated table is empty.
AnalisisTendenciasGlobales ==
    /\ resultados_tendencias = None
    /\ records # <<>>
    /\ resultados_tendencias' = analisis_tendencias_globales(records, tendencias)
    /\ UNCHANGED <<records, tendencias, tematicas_config, df_matriz, resultados_tend>>
    /\ UNCHANGED varsDetect
    /\ UNCHANGED varsQuality
    /\ UNCHANGED varsNivel
    /\ UNCHANGED varsConfig
    /\ UNCHANGED varsDict
    /\ UNCHANGED varsConsolida
    /\ UNCHANGED varsData
    /\ UNCHANGED varsNormal
    /\ UNCHANGED varsCobertura
    /\ UNCHANGED varsNlp
    /\ UNCHANGED varsLote

\* dashboard_tematico.main: stops before the pages when the table is empty.
AnalizarTendencias ==
    /\ resultados_tend = None
    /\ records # <<>>
    /\ resultados_tend' = analizar_tendencias(records, tendencias)
    /\ UNCHANGED <<records, tendencias, tematicas_config, df_matriz, resultados_tendencias>>
    /\ UNCHANGED varsDetect
    /\ UNCHANGED varsQuality
    /\ UNCHANGED varsNivel
    /\ UNCHANGED varsConfig
    /\ UNCHANGED varsDict
    /\ UNCHANGED varsConsolida
    /\ UNCHANGED varsData
    /\ UNCHANGED varsNormal
    /\ UNCHANGED varsCobertura
    /\ UNCHANGED varsNlp
    /\ UNCHANGED varsLote

NextCorpus ==
    \/ GenerateThematicMatrix
    \/ AnalisisTendenciasGlobales
    \/ AnalizarTendencias

SpecCorpus == InitCorpus /\ [][NextCorpus]_vars

----------------------------------------------------------------------------
(* The indicators of one program *)

MaxRA == 3

\* A row of the sheet of learning outcomes, with the two columns the
\* extractor adds.
fila_ra(competencia, tipo, verbo, dominio) ==
    "Competencia por desarrollar" :> competencia @@ "TipoSaber" :> tipo
    @@ "Verbo RA" :> verbo @@ "Nivel Dominio" :> dominio
    @@ "Programa" :> Chars("P1") @@ "Archivo" :> Chars("P1.xlsx")

\* The rows of learning outcomes: three outcomes of three competencies and
\* three kinds of knowledge with verbs of the two highest levels, an outcome
\* of no competency whose verb is not in the taxonomy, and an outcome without
\* kind of knowledge and verb.
FilasRA ==
    { fila_ra(Chars("C1"), Chars("Saber"), Chars("Crear "), NaN),
      fila_ra(Chars("C2"), Chars("SaberHacer"), Chars("diseñar"), NaN),
      fila_ra(Chars("C3"), Chars("SaberSer"), Chars("evaluar"), Chars("Evaluación")),
      fila_ra(NaN, Chars("Saber"), Chars("valorar"), Chars("Evaluación")),
      fila_ra(Chars("C1"), NaN, NaN, Chars("Aplicación")) }

\* A row of the sheet of competencies.
fila_competencia(no, redaccion) ==
    "No." :> no @@ "Redacción competencia" :> redaccion
    @@ "Programa" :> Chars("P1") @@ "Archivo" :> Chars("P1.xlsx")

\* The tables of competencies: none (the sheet could not be read), one
\* competency, two competencies of which one has no wording.
TablasCompetencias ==
    { <<>>,
      << fila_competencia(Chars("C1"), Chars("ab")) >>,
      << fila_competencia(Chars("C1"), Chars("ab")), fila_competencia(Chars("C2"), NaN) >> }

\* A row of the sheet of micro strategies.
fila_micro(estrategia, recursos) ==
    "Estrategias de enseñanza aprendizaje" :> estrategia @@ "Recursos" :> recursos
    @@ "Programa" :> Chars("P1") @@ "Archivo" :> Chars("P1.xlsx")

TablasMicro ==
    { <<>>,
      << fila_micro(Chars("ABP"), Chars("a")) >>,
      << fila_micro(Chars("ABP"), Chars("a")), fila_micro(Chars("Clase"), Chars("a")) >>,
      << fila_micro(Chars("Clase"), NaN), fila_micro(Chars("ABP"), NaN),
         fila_micro(Chars("ABP"), Chars("a")), fila_micro(NaN, Chars("a")) >> }

\* A row of the sheet of meso strategies.
fila_meso(estrategia, descripcion) ==
    "Estrategia del programa" :> estrategia @@ "Descripción" :> descripcion
    @@ "Programa" :> Chars("P1") @@ "Archivo" :> Chars("P1.xlsx")

TablasMeso ==
    { <<>>, << fila_meso(Chars("a"), Chars("b")) >> }

\* CurricularAnalyzer.__init__ on the output of ExcelExtractor.extract_all().
InitQuality ==
    /\ \E competencias \in TablasCompetencias, meso \in TablasMeso, micro \in TablasMicro,
          ra \in UNION {[1..n -> FilasRA] : n \in 0..MaxRA} :
          programa_data = [metadata |-> [programa |-> "P1"],
                           competencias |-> competencias,
                           resultados_aprendizaje |-> ra,
                           estrategias_meso |-> meso,
                           estrategias_micro |-> micro]
    /\ reporte = None
    /\ text = NaN
    /\ tematicas_config = None
    /\ extract_context = FALSE
    /\ resultados = None
    /\ SinCorpus
    /\ SinNivel
    /\ SinConfig
    /\ SinDict
    /\ SinConsolida
    /\ SinData
    /\ SinNormal
    /\ SinCobertura
    /\ SinNlp
    /\ SinLote

GenerarReporteIndicadores ==
    /\ reporte = None
    /\ reporte' \in generar_reporte_indicadores(programa_data)
    /\ UNCHANGED programa_data
    /\ UNCHANGED varsDetect
    /\ UNCHANGED tematicas_config
    /\ UNCHANGED varsCorpus
    /\ UNCHANGED varsNivel
    /\ UNCHANGED varsConfig
    /\ UNCHANGED varsDict
    /\ UNCHANGED varsConsolida
    /\ UNCHANGED varsData
    /\ UNCHANGED varsNormal
    /\ UNCHANGED varsCobertura
    /\ UNCHANGED varsNlp
    /\ UNCHANGED varsLote

NextQuality == GenerarReporteIndicadores

SpecQuality == InitQuality /\ [][NextQuality]_vars

----------------------------------------------------------------------------
(* What the claims speak of, stated without the detector's own operators *)

\* Case-insensitive, accent-insensitive comparison: the letter under a character.
FoldChar(c) ==
    CASE c \in {"A", "a", "Á", "á"} -> "a"
      [] c \in {"B", "b"} -> "b"
      [] OTHER -> c

\* The text as the comparison sees it; a missing text has no characters.
Fold(s) == IF s = NaN THEN <<>> ELSE [i \in 1..Len(s) |-> FoldChar(s[i])]

IsLetter(c) == c \in {"a", "b", "c"}

\* A word starts at offset p of s.
StartsWord(s, p) == p < Len(s) /\ IsLetter(s[p + 1]) /\ (p = 0 \/ ~IsLetter(s[p]))

\* k occurs in s at offset p.
PrefixAt(k, s, p) == p + Len(k) <= Len(s) /\ SubSeq(s, p + 1, p + Len(k)) = k

\* The occurrence of k at offset p of s with the word characters that follow it.
WholeForm(k, s, p) ==
    LET q == CHOOSE e \in (p + Len(k))..Len(s) :
                /\ \A j \in (p + Len(k) + 1)..e : IsLetter(s[j])
                /\ e = Len(s) \/ ~IsLetter(s[e + 1])
    IN SubSeq(s, p + 1, q)

\* The offsets where a word of s starts with k.
WordStartsWith(k, s) == {p \in 0..Len(s) : StartsWord(s, p) /\ PrefixAt(k, s, p)}

SingleWord(k) == \A j \in 1..Len(k) : IsLetter(k[j])

Detected == resultados # None

Tematicas == DOMAIN tematicas_config

KeywordsOf(t) == ToSet(tematicas_config[t].keywords)

FormsOf(t) == ToSet(resultados[t].keywords_encontradas)

----------------------------------------------------------------------------
(* Claims on detect_in_text *)

\* C1 as stated: a text that contains a keyword of a theme anywhere (compared
\* after normalization) is reported with presente = true and
\* num_coincidencias >= 1.  Refuted by a keyword that occurs only inside a word.
C1_ContainedKeywordDetected ==
    Detected =>
        \A t \in Tematicas : \A k \in KeywordsOf(t) :
            Contains(Fold(k), Fold(text)) =>
                resultados[t].presente /\ resultados[t].num_coincidencias >= 1

\* C1 amended: a text in which a keyword of a theme occurs at the start of a
\* word (compared after normalization) is reported with presente = true and
\* num_coincidencias >= 1.
C1_KeywordAtWordStartDetected ==
    Detected =>
        \A t \in Tematicas : \A k \in KeywordsOf(t) :
            WordStartsWith(Fold(k), Fold(text)) # {} =>
                resultados[t].presente /\ resultados[t].num_coincidencias >= 1

\* C1 witness: an upper-case accented text matched by an unaccented keyword.
C1_Witness ==
    /\ Detected
    /\ \E t \in Tematicas : \E k \in KeywordsOf(t) :
        /\ WordStartsWith(Fold(k), Fold(text)) # {}
        /\ ~Contains(k, text)
        /\ resultados[t].presente

C3_PrefixAnchoredWordMatch ==
    Detected =>
        \A t \in Tematicas :
            /\ \A f \in FormsOf(t) :
                \E k \in KeywordsOf(t) : \E p \in WordStartsWith(Fold(k), Fold(text)) :
                    f = WholeForm(Fold(k), Fold(text), p)
            /\ \A k \in KeywordsOf(t) : \A p \in WordStartsWith(Fold(k), Fold(text)) :
                (SingleWord(Fold(k)) \/ \A q \in WordStartsWith(Fold(k), Fold(text)) : p <= q)
                    => WholeForm(Fold(k), Fold(text), p) \in FormsOf(t)

\* C3 witness: a keyword is reported with trailing word characters while the
\* same keyword also occurs inside a word of the text.
C3_Witness ==
    /\ Detected
    /\ \E t \in Tematicas : \E k \in KeywordsOf(t) :
        /\ \E f \in FormsOf(t) : Len(f) > Len(k) /\ PrefixAt(Fold(k), f, 0)
        /\ \E p \in Occurrences(Fold(k), Fold(text)) : ~StartsWord(Fold(text), p)

\* C4: for an empty or missing text the result has an entry for every theme of
\* the dictionary, each with presente = false and num_coincidencias = 0.
C4_EmptyTextAllAbsent ==
    (Detected /\ (text = NaN \/ text = <<>>)) =>
        /\ DOMAIN resultados = Tematicas
        /\ \A t \in Tematicas :
            ~resultados[t].presente /\ resultados[t].num_coincidencias = 0

\* C4 witness: detection ran on a missing text with a non-empty keyword list.
C4_Witness ==
    /\ Detected
    /\ text = NaN
    /\ \E t \in Tematicas : KeywordsOf(t) # {}
    /\ \A t \in Tematicas : ~resultados[t].presente

----------------------------------------------------------------------------
(* Claims about the analyses of a corpus, stated over the corpus itself *)

RECURSIVE SumSeq(_)
SumSeq(s) == IF s = <<>> THEN 0 ELSE Head(s) + SumSeq(Tail(s))

\* The records of a program, by index.
RecordsOf(p) == {k \in 1..Len(records) : records[k].Programa = p}

\* The Keyword Matcher on the text of a record.
MatcherOn(txt, tid) == detect_in_text(txt, tendencias, FALSE, 0)[tid]

\* Per record, the Matcher's match count for a theme, 0 for other programs' records.
MatchCounts(p, tid) ==
    [k \in 1..Len(records) |->
        IF records[k].Programa = p
        THEN MatcherOn(fillna(records[k].texto), tid).num_coincidencias ELSE 0]

\* A keyword of the theme, lower-cased, occurs somewhere in the lower-cased
\* combined text of the record.
SubstringFound(k, tid) ==
    LET txt == Texto_Completo(records[k])
    IN \E i \in 1..Len(tendencias[tid].keywords) :
         LET kw == lower(tendencias[tid].keywords[i])
         IN \E q \in 0..(Len(txt) - Len(kw)) : SubSeq(txt, q + 1, q + Len(kw)) = kw

\* The rows of the thematic matrix that stand for a program.
FilasDeProgramas == 1..Len(Programas)

\* The matrices of the two trend analyses that have been run.
TrendMatrices ==
    (IF resultados_tendencias # None
     THEN {resultados_tendencias.matriz_tendencias} ELSE {})
    \cup (IF resultados_tend # None THEN {resultados_tend.matriz} ELSE {})

\* C5 (as stated): every cell of the program x theme matrix is the sum, over the
\* records of the program, of the Matcher's match count of the theme on the
\* record.
C5_CellIsSumOfMatchCounts ==
    /\ df_matriz # None =>
         \A i \in FilasDeProgramas : \A tid \in DOMAIN tendencias :
            df_matriz.filas[i].tematicas[tid] = SumSeq(MatchCounts(Programas[i], tid))
    /\ \A m \in TrendMatrices : \A p \in DOMAIN m : \A tid \in DOMAIN tendencias :
            m[p][tid] = SumSeq(MatchCounts(p, tid))

\* C5 (amended): every cell of a program x theme matrix is the number of
\* records of the program on which the theme is detected, each record counted
\* once however many forms match it: detected by the Matcher for the matrix of
\* generate_thematic_matrix, by the substring rule for the matrices of the
\* trend analyses. No cell is negative, the row of a program sums these counts
\* and the TOTAL row sums the rows.
C5_CellIsNumberOfRecordsDetected ==
    /\ df_matriz # None =>
         /\ \A i \in FilasDeProgramas : \A tid \in DOMAIN tendencias :
              /\ df_matriz.filas[i].Programa = Programas[i]
              /\ df_matriz.filas[i].tematicas[tid] =
                    Cardinality({k \in RecordsOf(Programas[i]) :
                                    MatcherOn(fillna(records[k].texto), tid).presente})
              /\ df_matriz.filas[i].tematicas[tid] >= 0
         /\ \A tid \in DOMAIN tendencias :
              df_matriz.filas[Len(Programas) + 1].tematicas[tid] =
                 Cardinality({k \in 1..Len(records) :
                                 MatcherOn(fillna(records[k].texto), tid).presente})
    /\ \A m \in TrendMatrices :
         /\ DOMAIN m = {records[k].Programa : k \in 1..Len(records)}
         /\ \A p \in DOMAIN m : \A tid \in DOMAIN tendencias :
              /\ m[p][tid] = Cardinality({k \in RecordsOf(p) : SubstringFound(k, tid)})
              /\ m[p][tid] >= 0

\* C5 witness: both kinds of matrix built over a program with two records on
\* which the theme is detected, one of them matched by two distinct forms.
C5_Witness ==
    /\ df_matriz # None
    /\ resultados_tendencias # None
    /\ df_matriz.filas[1].tematicas["SOSTENIBILIDAD"] = 2
    /\ resultados_tendencias.matriz_tendencias["P1"]["SOSTENIBILIDAD"] = 2
    /\ \E k \in RecordsOf("P1") :
         MatcherOn(fillna(records[k].texto), "SOSTENIBILIDAD").num_coincidencias = 2

\* The gap lists of the two trend analyses that have been run, each with its matrix.
TrendGaps ==
    (IF resultados_tendencias # None
     THEN {[matriz |-> resultados_tendencias.matriz_tendencias,
            ausentes |-> resultados_tendencias.tendencias_ausentes]} ELSE {})
    \cup (IF resultados_tend # None
          THEN {[matriz |-> resultados_tend.matriz,
                 ausentes |-> resultados_tend.ausentes]} ELSE {})

RECURSIVE ColumnSum(_, _, _)
\* The column of a theme summed over a set of programs.
ColumnSum(m, tid, ps) ==
    IF ps = {} THEN 0
    ELSE LET p == CHOOSE x \in ps : TRUE
         IN m[p][tid] + ColumnSum(m, tid, ps \ {p})

\* C6: after a trend analysis the gap list is exactly the set of themes of the
\* dictionary whose column of the matrix sums to 0 over the programs; a theme
\* counted for some program is not in it, a theme counted for none is, and no
\* theme is listed twice.
C6_GapsAreZeroColumns ==
    \A g \in TrendGaps :
        /\ ToSet(g.ausentes) =
              {tid \in DOMAIN tendencias : ColumnSum(g.matriz, tid, DOMAIN g.matriz) = 0}
        /\ Len(g.ausentes) = Cardinality(ToSet(g.ausentes))
        /\ \A tid \in DOMAIN tendencias :
              /\ (\E p \in DOMAIN g.matriz : g.matriz[p][tid] > 0)
                    => tid \notin ToSet(g.ausentes)
              /\ (\A k \in 1..Len(records) : ~SubstringFound(k, tid))
                    => tid \in ToSet(g.ausentes)

\* C6 witness: both analyses run over two programs; one theme is found in one
\* program only and is not a gap, the other is found in no program and is the gap.
C6_Witness ==
    /\ resultados_tendencias # None
    /\ resultados_tend # None
    /\ DOMAIN resultados_tendencias.matriz_tendencias = {"P1", "P2"}
    /\ resultados_tendencias.matriz_tendencias["P1"]["SOSTENIBILIDAD"] > 0
    /\ resultados_tendencias.matriz_tendencias["P2"]["SOSTENIBILIDAD"] = 0
    /\ resultados_tendencias.tendencias_ausentes = <<"INTELIGENCIA ARTIFICIAL">>
    /\ resultados_tend.ausentes = <<"INTELIGENCIA ARTIFICIAL">>

\* C7 (as stated): the trend analyses count a theme for a record exactly when
\* detect_in_text reports the theme present on the text of that record, so a
\* cell is the number of the program's records on which the Matcher detects
\* the theme.
C7_AggregatorDecidesAsMatcher ==
    \A m \in TrendMatrices : \A p \in DOMAIN m : \A tid \in DOMAIN tendencias :
        m[p][tid] = Cardinality({k \in RecordsOf(p) :
                                    MatcherOn(Texto_Completo(records[k]), tid).presente})

----------------------------------------------------------------------------
(* Claims about the quality indicators, stated over the tables and the report *)

Reported == reporte # None

\* The declared competencies (rows of the table of competencies) that some
\* learning outcome names in its column Competencia por desarrollar.
DeclaredWithRA ==
    {i \in 1..Len(programa_data.competencias) :
        \E k \in 1..Len(programa_data.resultados_aprendizaje) :
            programa_data.resultados_aprendizaje[k]["Competencia por desarrollar"]
                = programa_data.competencias[i]["No."]}

\* The five sub-indicator scores read from the report, in tenths.
SubScores ==
    [completitud |-> reporte.completitud.completitud_total,
     complejidad |-> reporte.complejidad_cognitiva.indice_complejidad,
     balance |-> IF 1000 - reporte.balance_tipo_saber.desviacion_estandar * 5 < 0 THEN 0
                 ELSE 1000 - reporte.balance_tipo_saber.desviacion_estandar * 5,
     diversidad |-> IF reporte.diversidad_metodologica.num_estrategias_unicas * 80 > 1000
                    THEN 1000
                    ELSE reporte.diversidad_metodologica.num_estrategias_unicas * 80,
     cobertura |-> reporte.cobertura_competencias.porcentaje_cobertura]

\* The weighted sum of the five sub-indicator scores, in thousandths.
WeightedFive ==
    25 * SubScores.completitud + 20 * SubScores.complejidad + 15 * SubScores.balance
    + 15 * SubScores.diversidad + 15 * SubScores.cobertura

\* n tenths is x thousandths rounded to a tenth.
IsRounded(n, x) == 100 * n - 50 <= x /\ x <= 100 * n + 50

\* C8 (as stated): the composite score of every program lies within 0 and 100.
C8_ScoreBetween0And100 ==
    Reported => 0 <= reporte.score_calidad /\ reporte.score_calidad <= 1000

C10_CoverageOfDeclaredCompetencies ==
    Reported =>
        /\ reporte.cobertura_competencias.competencias_con_ra = Cardinality(DeclaredWithRA)
        /\ reporte.cobertura_competencias.competencias_con_ra
              <= reporte.cobertura_competencias.total_competencias
        /\ reporte.cobertura_competencias.porcentaje_cobertura <= 1000

----------------------------------------------------------------------------
(* The cognitive level of one learning outcome: _get_nivel_taxonomico and   *)
(* validate_verbo_taxonomico                                                *)

\* None where validate_verbo_taxonomico holds a level name or None: the
\* function only tests the value for truth, and the empty name is as false
\* as None.
SinNombre == ""

RECURSIVE nombre_en_taxonomia(_, _)
\* The name of the first level of TAXONOMIA_BLOOM, from the k-th on, whose
\* verbs, lower-cased, include verbo_lower; SinNombre when none does.
nombre_en_taxonomia(verbo_lower, k) ==
    IF k > Len(TAXONOMIA_BLOOM) THEN SinNombre
    ELSE IF verbo_lower \in ToSet(verbos_nivel[k])
         THEN TAXONOMIA_BLOOM[k].nombre
         ELSE nombre_en_taxonomia(verbo_lower, k + 1)

\* The level name that validate_verbo_taxonomico reads in the declared level.
nivel_declarado_de(nivel_str) ==
    IF Contains(Chars("analisis"), nivel_str) \/ Contains(Chars("analiz"), nivel_str)
    THEN "ANALIZAR"
    ELSE IF Contains(Chars("evalua"), nivel_str) THEN "EVALUAR"
    ELSE IF Contains(Chars("crea"), nivel_str) \/ Contains(Chars("diseñ"), nivel_str)
    THEN "CREAR"
    ELSE IF Contains(Chars("aplic"), nivel_str) THEN "APLICAR"
    ELSE IF Contains(Chars("comprend"), nivel_str) THEN "COMPRENDER"
    ELSE IF Contains(Chars("record"), nivel_str) THEN "RECORDAR"
    ELSE SinNombre

\* 'x or "Desconocido"', as text.
o_desconocido(x) == IF x = SinNombre THEN Chars("Desconocido") ELSE Chars(x)

\* The mensaje of validate_verbo_taxonomico.
mensaje_de(v, nivel_verbo, nivel_declarado) ==
    IF nivel_verbo # SinNombre /\ nivel_declarado # SinNombre /\ nivel_verbo # nivel_declarado
    THEN Chars("Inconsistencia: verbo '") \o str(v) \o Chars("' corresponde a ")
         \o Chars(nivel_verbo) \o Chars(", pero está declarado como ")
         \o Chars(nivel_declarado)
    ELSE IF nivel_verbo = SinNombre
    THEN Chars("Verbo '") \o str(v) \o Chars("' no encontrado en taxonomía")
    ELSE <<>>

\* The dict of validate_verbo_taxonomico from the two names it resolved.
coherencia_de(v, nivel_verbo, nivel_declarado) ==
    [coherente |-> nivel_verbo # SinNombre /\ nivel_declarado # SinNombre
                   /\ nivel_verbo = nivel_declarado,
     nivel_esperado |-> o_desconocido(nivel_verbo),
     nivel_declarado |-> o_desconocido(nivel_declarado),
     mensaje |-> mensaje_de(v, nivel_verbo, nivel_declarado)]

validate_verbo_taxonomico(v, n) ==
    IF isna(v) \/ isna(n)
    THEN [coherente |-> FALSE,
          nivel_esperado |-> Chars("Desconocido"),
          nivel_declarado |-> str(n),
          mensaje |-> Chars("Verbo o nivel no proporcionado")]
    ELSE coherencia_de(v, nombre_en_taxonomia(strip(lower(str(v))), 1),
                       nivel_declarado_de(lower(str(n))))

\* 'Verbo RA' cells: missing, listed once, listed with capitals and padding,
\* listed under two levels, not listed, empty.
Verbos ==
    {NaN} \cup {Chars(v) : v \in {"evaluar", "Evaluar ", "comparar", "Comparar",
                                  "diseñar", "Crear ", "valorar", "definir", ""}}

\* 'Nivel Dominio' cells: missing, without a signal, with one, with several.
Dominios ==
    {NaN} \cup {Chars(n) : n \in {"", "Análisis", "analisis", "Evaluación", "Diseñar",
                                  "Diseño", "Aplicación", "Comprensión", "comprender",
                                  "Analiza y crea", "critica de aplicaciones",
                                  "Aplicar el analisis", "Recordar"}}

InitNivel ==
    /\ Verbo_RA \in Verbos
    /\ Nivel_Dominio \in Dominios
    /\ niveles_ra = <<>>
    /\ verbo_coherente = None
    /\ text = NaN
    /\ tematicas_config = None
    /\ extract_context = FALSE
    /\ resultados = None
    /\ SinCorpus
    /\ SinPrograma
    /\ SinConfig
    /\ SinDict
    /\ SinConsolida
    /\ SinData
    /\ SinNormal
    /\ SinCobertura
    /\ SinNlp
    /\ SinLote

\* calcular_complejidad_cognitiva on the row: the level of the outcome is
\* appended to niveles.
GetNivelTaxonomico ==
    /\ niveles_ra = <<>>
    /\ niveles_ra' = Append(niveles_ra, _get_nivel_taxonomico(Verbo_RA, Nivel_Dominio))
    /\ UNCHANGED <<Verbo_RA, Nivel_Dominio, verbo_coherente>>
    /\ UNCHANGED varsDetect
    /\ UNCHANGED tematicas_config
    /\ UNCHANGED varsCorpus
    /\ UNCHANGED varsQuality
    /\ UNCHANGED varsConfig
    /\ UNCHANGED varsDict
    /\ UNCHANGED varsConsolida
    /\ UNCHANGED varsData
    /\ UNCHANGED varsNormal
    /\ UNCHANGED varsCobertura
    /\ UNCHANGED varsNlp
    /\ UNCHANGED varsLote

\* validate_resultado_aprendizaje on the row: verb against declared level.
ValidateVerboTaxonomico ==
    /\ verbo_coherente = None
    /\ verbo_coherente' = validate_verbo_taxonomico(Verbo_RA, Nivel_Dominio)
    /\ UNCHANGED <<Verbo_RA, Nivel_Dominio, niveles_ra>>
    /\ UNCHANGED varsDetect
    /\ UNCHANGED tematicas_config
    /\ UNCHANGED varsCorpus
    /\ UNCHANGED varsQuality
    /\ UNCHANGED varsConfig
    /\ UNCHANGED varsDict
    /\ UNCHANGED varsConsolida
    /\ UNCHANGED varsData
    /\ UNCHANGED varsNormal
    /\ UNCHANGED varsCobertura
    /\ UNCHANGED varsNlp
    /\ UNCHANGED varsLote

NextNivel ==
    \/ GetNivelTaxonomico
    \/ ValidateVerboTaxonomico

SpecNivel == InitNivel /\ [][NextNivel]_vars

----------------------------------------------------------------------------
(* Claims about the cognitive level of a learning outcome, stated over the  *)
(* cells of the outcome and the taxonomy table                              *)

\* The level of the outcome has been returned.
Resolved == niveles_ra # <<>>

\* The level returned for the outcome.
Level == niveles_ra[1]

\* The verb as the taxonomy is searched for it: lower-cased, without the
\* surrounding whitespace.
VerbText == strip(lower(Verbo_RA))

\* The entries of the taxonomy, in its order, that list the verb.
EntriesListing(v) ==
    {k \in 1..Len(TAXONOMIA_BLOOM) :
        \E j \in 1..Len(TAXONOMIA_BLOOM[k].verbos) :
            lower(Chars(TAXONOMIA_BLOOM[k].verbos[j])) = v}

\* The signals read in the declared domain text, in their priority order.
DomainSignals ==
    << [nivel |-> 4, stems |-> {"analis"}],
       [nivel |-> 5, stems |-> {"evalua", "critica"}],
       [nivel |-> 6, stems |-> {"crea", "diseña"}],
       [nivel |-> 3, stems |-> {"aplic"}],
       [nivel |-> 2, stems |-> {"comprend", "entiend"}] >>

\* The lower-cased domain text holds a stem of the i-th signal.
SignalFound(i, dom) ==
    /\ ~isna(dom)
    /\ \E st \in DomainSignals[i].stems :
          \E q \in 0..(Len(dom) - Len(st)) :
              SubSeq(lower(dom), q + 1, q + Len(st)) = Chars(st)

\* The level of the first signal found in the domain text, 2 when none is.
SignalLevel(dom) ==
    IF \E i \in 1..Len(DomainSignals) : SignalFound(i, dom)
    THEN DomainSignals[CHOOSE i \in 1..Len(DomainSignals) :
                          /\ SignalFound(i, dom)
                          /\ \A j \in 1..(i - 1) : ~SignalFound(j, dom)].nivel
    ELSE 2

\* C11 as stated: for every outcome, with any verb or none, the level is in
\* 1..6 and is the taxonomy level of the verb when the verb is listed, else
\* the level of the first signal of the domain text, else 2.
C11_LevelFromVerbThenDomain ==
    Resolved =>
        /\ Level \in 1..6
        /\ IF ~isna(Verbo_RA) /\ EntriesListing(VerbText) # {}
           THEN Level \in {TAXONOMIA_BLOOM[k].nivel : k \in EntriesListing(VerbText)}
           ELSE Level = SignalLevel(Nivel_Dominio)

\* C11: the level is in 1..6; it is 1 for a missing verb whatever the domain
\* text; for a verb that the taxonomy lists it is the level of the first
\* entry listing it, whatever the domain text; for any other verb it is the
\* level of the first signal of the domain text, 2 when there is none.
C11_LevelFromMissingVerbThenVerbThenDomain ==
    Resolved =>
        /\ Level \in 1..6
        /\ IF isna(Verbo_RA) THEN Level = 1
           ELSE IF EntriesListing(VerbText) # {}
           THEN Level = TAXONOMIA_BLOOM[CHOOSE k \in EntriesListing(VerbText) :
                                           \A m \in EntriesListing(VerbText) : k <= m].nivel
           ELSE Level = SignalLevel(Nivel_Dominio)

\* A missing verb with a declared domain of evaluation has been given level 1.
C11_Witness ==
    /\ Resolved
    /\ isna(Verbo_RA)
    /\ Nivel_Dominio = Chars("Evaluación")
    /\ Level = 1

\* The level name that the validator expects for the verb has been returned.
Validated == verbo_coherente # None

\* C12: the verb of an outcome is listed under at most one level of the
\* taxonomy, so that the level resolved for it by the analyzer and the level
\* name expected for it by the validator are those of every entry that lists
\* it, whatever the order in which the entries are searched.
C12_VerbListedUnderOneLevel ==
    ~isna(Verbo_RA) =>
        /\ Resolved =>
              /\ Cardinality(EntriesListing(VerbText)) <= 1
              /\ \A k \in EntriesListing(VerbText) : Level = TAXONOMIA_BLOOM[k].nivel
        /\ (Validated /\ ~isna(Nivel_Dominio)) =>
              /\ Cardinality(EntriesListing(VerbText)) <= 1
              /\ \A k \in EntriesListing(VerbText) :
                    verbo_coherente.nivel_esperado = Chars(TAXONOMIA_BLOOM[k].nombre)

----------------------------------------------------------------------------
(* config.py: validate_config, its call when the module is imported, and    *)
(* the score computed with the weights of the module.  Weights are in       *)
(* thousandths here (0.25 is 250), scores in tenths.                        *)

\* The weights as config.py ships them.
pesos_por_defecto == [k \in DOMAIN QUALITY_WEIGHTS |-> QUALITY_WEIGHTS[k] * 10]

\* QUALITY_WEIGHTS.values(), in the order of the dict.
values(w) ==
    << w.completitud, w.complejidad_cognitiva, w.balance_tipo_saber,
       w.diversidad_metodologica, w.cobertura_competencias, w.calidad_redaccion >>

abs(x) == IF x < 0 THEN -x ELSE x

\* The weights are refused whenever their sum is not exactly 1.0.
fuera_de_tolerancia_exacta(total_weight) == {total_weight # 1000}

\* abs(total_weight - 1.0) > 0.01, on floats: when the decimal sum lies at
\* exactly 0.01 from 1.0 the outcome is that of the binary rounding of the
\* weights and of their sum (0.99 and 1.01 as floats lie beyond the float
\* 0.01 from 1.0; a sum one unit in the last place nearer does not).
fuera_de_tolerancia(total_weight) ==
    IF abs(total_weight - 1000) > 10 THEN {TRUE}
    ELSE IF abs(total_weight - 1000) < 10 THEN {FALSE}
    ELSE BOOLEAN

required_dirs == <<"INPUT_FOLDER", "OUTPUT_FOLDER", "PROCESSED_FOLDER">>

\* The errors of validate_config, given whether the weights were refused.
errors_de(refused, total_weight, dirs) ==
    (IF refused
     THEN << [error |-> "Los pesos de QUALITY_WEIGHTS deben sumar 1.0",
              actual |-> total_weight] >>
     ELSE <<>>)
    \o [i \in 1..Len(SelectSeq(required_dirs, LAMBDA dir_path : dir_path \notin dirs)) |->
          [error |-> "Directorio no encontrado",
           actual |-> SelectSeq(required_dirs, LAMBDA dir_path : dir_path \notin dirs)[i]]]

\* validate_config: the lists of errors it can end with.  It raises
\* ValueError with the list when the list is not empty and returns True
\* when it is.
validate_config(w, dirs) ==
    {errors_de(refused, sum(values(w)), dirs) :
        refused \in fuera_de_tolerancia(sum(values(w)))}

\* score_total of calcular_score_calidad with the weights of the module, in
\* ten-thousandths.
score_ponderado(w, completitud, complejidad, balance, cobertura, diversidad) ==
    completitud.completitud_total * w.completitud
    + complejidad.indice_complejidad * w.complejidad_cognitiva
    + score_balance(balance) * w.balance_tipo_saber
    + score_diversidad(diversidad) * w.diversidad_metodologica
    + cobertura.porcentaje_cobertura * w.cobertura_competencias
    + score_redaccion * w.calidad_redaccion

\* Weight sets an editor of config.py can leave: the shipped one and sets
\* whose sum lies within, at and beyond the tolerance.
Pesos ==
    {[pesos_por_defecto EXCEPT !.completitud = c, !.calidad_redaccion = r] :
        c \in {250, 245}, r \in {50, 89, 90, 95, 100, 105, 110, 111, 150}}

\* Programs the score is computed for.
ProgramasConfig ==
    {[metadata |-> [programa |-> "P1"],
      competencias |-> competencias,
      resultados_aprendizaje |-> ra,
      estrategias_meso |-> <<>>,
      estrategias_micro |-> <<>>] :
        competencias \in TablasCompetencias,
        ra \in {<<>>} \cup [1..1 -> FilasRA]}

InitConfig ==
    /\ quality_weights \in Pesos
    /\ directorios \in SUBSET ToSet(required_dirs)
    /\ config_importado = FALSE
    /\ errors = <<>>
    /\ stdout = <<>>
    /\ score_calidad = <<>>
    /\ programa_data \in ProgramasConfig
    /\ reporte = None
    /\ text = NaN
    /\ tematicas_config = None
    /\ extract_context = FALSE
    /\ resultados = None
    /\ SinCorpus
    /\ SinNivel
    /\ SinDict
    /\ SinConsolida
    /\ SinData
    /\ SinNormal
    /\ SinCobertura
    /\ SinNlp
    /\ SinLote

\* 'from config import ...': the module creates its data directories, then
\* calls validate_config and prints the ValueError it raises as a warning.
ImportConfig ==
    /\ ~config_importado
    /\ config_importado' = TRUE
    /\ directorios' = directorios \cup {"INPUT_FOLDER", "PROCESSED_FOLDER", "OUTPUT_FOLDER"}
    /\ errors' \in validate_config(quality_weights, directorios')
    /\ stdout' = IF errors' # <<>>
                 THEN Append(stdout, [ADVERTENCIA |-> errors'])
                 ELSE stdout
    /\ UNCHANGED <<quality_weights, score_calidad>>
    /\ UNCHANGED varsDetect
    /\ UNCHANGED tematicas_config
    /\ UNCHANGED varsCorpus
    /\ UNCHANGED varsQuality
    /\ UNCHANGED varsNivel
    /\ UNCHANGED varsDict
    /\ UNCHANGED varsConsolida
    /\ UNCHANGED varsData
    /\ UNCHANGED varsNormal
    /\ UNCHANGED varsCobertura
    /\ UNCHANGED varsNlp
    /\ UNCHANGED varsLote

\* CurricularAnalyzer.calcular_score_calidad, in a process that has
\* imported config.
CalcularScoreCalidad ==
    /\ config_importado
    /\ score_calidad = <<>>
    /\ \E ind \in indicadores(programa_data) :
          \E score \in round(score_ponderado(quality_weights, ind[1], ind[2], ind[3],
                                             ind[4], ind[5]), 1000) :
              score_calidad' = <<score>>
    /\ UNCHANGED <<quality_weights, directorios, config_importado, errors, stdout>>
    /\ UNCHANGED varsDetect
    /\ UNCHANGED tematicas_config
    /\ UNCHANGED varsCorpus
    /\ UNCHANGED varsQuality
    /\ UNCHANGED varsNivel
    /\ UNCHANGED varsDict
    /\ UNCHANGED varsConsolida
    /\ UNCHANGED varsData
    /\ UNCHANGED varsNormal
    /\ UNCHANGED varsCobertura
    /\ UNCHANGED varsNlp
    /\ UNCHANGED varsLote

NextConfig ==
    \/ ImportConfig
    \/ CalcularScoreCalidad

SpecConfig == InitConfig /\ [][NextConfig]_vars

----------------------------------------------------------------------------
(* Claims about the validation of the weights *)

\* The sum of the weights, in thousandths.
WeightSum ==
    quality_weights.completitud + quality_weights.complejidad_cognitiva
    + quality_weights.balance_tipo_saber + quality_weights.diversidad_metodologica
    + quality_weights.cobertura_competencias + quality_weights.calidad_redaccion

\* How far the sum of the weights lies from 1.0, in thousandths.
WeightGap == IF WeightSum >= 1000 THEN WeightSum - 1000 ELSE 1000 - WeightSum

\* validate_config has refused the weights: its errors name them.
WeightsRejected ==
    \E i \in 1..Len(errors) : errors[i].error = "Los pesos de QUALITY_WEIGHTS deben sumar 1.0"

\* C13 as stated: the validator rejects every weight set whose sum differs
\* from 1.0 by more than 0.01 and accepts every set whose sum is within 0.01,
\* the sets at 0.01 included.
C13_RejectedIffBeyondTolerance ==
    config_importado => (WeightsRejected <=> WeightGap > 10)

\* C13: the validator rejects, by raising, every weight set whose sum
\* differs from 1.0 by more than 0.01, and accepts every set whose sum
\* differs from 1.0 by less than 0.01: it reports no error for it once the
\* data directories exist.
C13_RejectedBeyondAcceptedInsideTolerance ==
    config_importado =>
        /\ WeightGap > 10 => (WeightsRejected /\ errors # <<>>)
        /\ WeightGap < 10 => (~WeightsRejected /\ errors = <<>>)

\* Weights summing to 0.995 have been validated without an error.
C13_Witness ==
    /\ config_importado
    /\ WeightSum = 995
    /\ errors = <<>>

\* C14: no composite score is computed with weights that failed validation.
C14_NoScoreWithRejectedWeights ==
    score_calidad # <<>> => ~WeightsRejected

----------------------------------------------------------------------------
(* The trend dictionary: obtener_tendencias and pagina_config_tendencias of *)
(* the dashboard, cargar_tendencias_personalizadas of the command line.     *)
(* A dict object is known by its identity, its position in objetos; a       *)
(* dictionary is a function from theme ids to themes.  A parsed JSON value  *)
(* carries its Python type.                                                 *)

\* A theme of a trend dictionary.
tema(keywords, color, descripcion) ==
    [keywords |-> keywords, color |-> color, descripcion |-> descripcion]

\* TENDENCIAS_GLOBALES, each list of keywords cut to its first keyword.
TENDENCIAS_GLOBALES ==
    "SOSTENIBILIDAD" :> tema(<<Chars("sostenibilidad")>>, "#2ECC71",
                             "Sostenibilidad y Desarrollo Sostenible (ODS)")
    @@ "INTELIGENCIA_ARTIFICIAL" :> tema(<<Chars("inteligencia artificial")>>, "#3498DB",
                             "Inteligencia Artificial y Tecnologias Emergentes")
    @@ "TRANSFORMACION_DIGITAL" :> tema(<<Chars("transformacion digital")>>, "#9B59B6",
                             "Transformacion Digital e Industria 4.0")
    @@ "INNOVACION" :> tema(<<Chars("innovacion")>>, "#E74C3C",
                             "Innovacion y Emprendimiento")
    @@ "ETICA" :> tema(<<Chars("etica")>>, "#F39C12",
                             "Etica, Valores y Responsabilidad Social")
    @@ "GLOBALIZACION" :> tema(<<Chars("globalizacion")>>, "#1ABC9C",
                             "Globalizacion y Perspectiva Glocal")
    @@ "LIDERAZGO" :> tema(<<Chars("liderazgo")>>, "#E67E22",
                             "Liderazgo y Habilidades Blandas")
    @@ "ANALISIS_DATOS" :> tema(<<Chars("analisis datos")>>, "#16A085",
                             "Analisis de Datos y Business Intelligence")
    @@ "GESTION_CAMBIO" :> tema(<<Chars("gestion cambio")>>, "#8E44AD",
                             "Gestion del Cambio y Adaptabilidad")
    @@ "CALIDAD" :> tema(<<Chars("calidad")>>, "#27AE60", "Calidad y Mejora Continua")

\* TENDENCIAS_DEFAULT of the dashboard: the same literal.
TENDENCIAS_DEFAULT == TENDENCIAS_GLOBALES

json_dict(items) == [tipo |-> "dict", valor |-> items]

json_list(items) == [tipo |-> "list", valor |-> items]

json_int(n) == [tipo |-> "int", valor |-> n]

json_str(chars) == [tipo |-> "str", valor |-> chars]

\* Content that json.load cannot parse.
JSONDecodeError == [tipo |-> "JSONDecodeError"]

\* A file that open() cannot read.
OSError == [tipo |-> "OSError"]

\* config.get(key, default) on a parsed dict.
get(config, key, default) ==
    IF key \in DOMAIN config.valor THEN config.valor[key] ELSE default

\* len(x) is defined.
tiene_len(x) == x.tipo \in {"dict", "list", "str"}

len(x) == IF x.tipo = "dict" THEN Cardinality(DOMAIN x.valor) ELSE Len(x.valor)

\* json.loads(json.dumps(d)) for a dictionary of themes: a new dict object
\* with the same ids, keywords, colors and descriptions.
json_copy(d) == [tid \in DOMAIN d |-> d[tid]]

\* The dict object the name TENDENCIAS_DEFAULT of the module is bound to.
default_de(objs) == objs[1]

\* obtener_tendencias: the objects and the session after the call.
objetos_tras_obtener(objs, ss) ==
    IF "tendencias" \in DOMAIN ss THEN objs ELSE Append(objs, json_copy(default_de(objs)))

\* obtener_tendencias putting the dict of the module itself in the session.
session_tras_obtener_sin_copia(objs, ss) ==
    IF "tendencias" \in DOMAIN ss THEN ss ELSE [tendencias |-> 1]

session_tras_obtener(objs, ss) ==
    IF "tendencias" \in DOMAIN ss THEN ss ELSE [tendencias |-> Len(objs) + 1]

\* The import block of the page on what json.load read.
importar(leido) ==
    IF leido.tipo = "JSONDecodeError" \/ leido.tipo # "dict"
    THEN [resultado |-> "error"]
    ELSE IF get(leido, "TENDENCIAS_GLOBALES", leido).tipo = "dict"
            /\ len(get(leido, "TENDENCIAS_GLOBALES", leido)) > 0
    THEN [resultado |-> "importadas",
          nuevas |-> get(leido, "TENDENCIAS_GLOBALES", leido).valor]
    ELSE [resultado |-> "nada"]

RECURSIVE split(_, _)
\* text.split(sep) for a separator of one character.
split(chars, sep) ==
    IF \E i \in 1..Len(chars) : chars[i] = sep
    THEN LET i == CHOOSE i \in 1..Len(chars) :
                    chars[i] = sep /\ \A j \in 1..(i - 1) : chars[j] # sep
         IN <<SubSeq(chars, 1, i - 1)>> \o split(SubSeq(chars, i + 1, Len(chars)), sep)
    ELSE <<chars>>

\* [k.strip() for k in nuevas_keywords.split('\n') if k.strip()]
keywords_list(nuevas_keywords) ==
    SelectSeq([i \in 1..Len(split(nuevas_keywords, "\n")) |->
                  strip(split(nuevas_keywords, "\n")[i])],
              LAMBDA k : k # <<>>)

\* d[k] = v on the dict object itself.
setitem(d, k, v) == [x \in DOMAIN d \cup {k} |-> IF x = k THEN v ELSE d[x]]

\* del d[k] on the dict object itself.
delitem(d, k) == [x \in DOMAIN d \ {k} |-> d[x]]

\* The loop that shows the themes reads the description, the keywords and
\* the color of each.
mostrable(d) ==
    \A tid \in DOMAIN d : {"descripcion", "keywords", "color"} \subseteq DOMAIN d[tid]

\* What a run of the page leaves.
tras_pagina(objs, ss, rerun_, msgs) ==
    [objetos |-> objs, session_state |-> ss, rerun |-> rerun_, mensajes |-> msgs]

\* The form 'Agregar Nueva Tendencia', submitted.
agregar_tendencia(objs, ss, msgs, evento) ==
    IF evento.nuevo_id # "" /\ evento.nueva_desc # "" /\ evento.nuevas_keywords # <<>>
    THEN IF keywords_list(evento.nuevas_keywords) # <<>>
         THEN tras_pagina(
                 [objs EXCEPT ![ss.tendencias] =
                     setitem(@, evento.nuevo_id,
                             tema(keywords_list(evento.nuevas_keywords),
                                  evento.nuevo_color, evento.nueva_desc))],
                 ss, TRUE, Append(msgs, [success |-> "Tendencia agregada"]))
         ELSE tras_pagina(objs, ss, FALSE,
                          Append(msgs, [error |-> "Debes ingresar al menos una keyword."]))
    ELSE tras_pagina(objs, ss, FALSE, msgs)

\* The button 'Eliminar Tendencia Seleccionada', pressed.
eliminar_tendencia(objs, ss, msgs, evento) ==
    IF evento.tid_eliminar \in DOMAIN objs[ss.tendencias]
    THEN tras_pagina([objs EXCEPT ![ss.tendencias] = delitem(@, evento.tid_eliminar)],
                     ss, TRUE, Append(msgs, [success |-> "Tendencia eliminada."]))
    ELSE tras_pagina(objs, ss, FALSE, msgs)

\* The button 'Restaurar Tendencias por Defecto', pressed.
restaurar_defecto(objs, ss, msgs) ==
    tras_pagina(Append(objs, json_copy(default_de(objs))),
                [ss EXCEPT !.tendencias = Len(objs) + 1],
                TRUE,
                Append(msgs, [success |-> "Tendencias restauradas a valores por defecto."]))

\* The page below its import block: export, the list of themes, the form
\* and the two buttons.
resto_pagina(objs, ss, msgs, evento) ==
    IF ~mostrable(objs[ss.tendencias])
    THEN tras_pagina(objs, ss, FALSE, Append(msgs, [exception |-> "KeyError"]))
    ELSE CASE evento.tipo = "agregar" -> agregar_tendencia(objs, ss, msgs, evento)
           [] evento.tipo = "eliminar" -> eliminar_tendencia(objs, ss, msgs, evento)
           [] evento.tipo = "restaurar" -> restaurar_defecto(objs, ss, msgs)
           [] OTHER -> tras_pagina(objs, ss, FALSE, msgs)

\* pagina_config_tendencias after its call of obtener_tendencias, with the
\* file of the uploader and the widget the user acted on.
pagina_config_tendencias(objs, ss, uploaded, evento) ==
    IF uploaded = None
    THEN resto_pagina(objs, ss, <<>>, evento)
    ELSE IF importar(uploaded).resultado = "importadas"
    THEN tras_pagina(Append(objs, importar(uploaded).nuevas),
                     [ss EXCEPT !.tendencias = Len(objs) + 1],
                     TRUE,
                     <<[success |-> "tendencias importadas."]>>)
    ELSE IF importar(uploaded).resultado = "error"
    THEN resto_pagina(objs, ss, <<[error |-> "Error al importar"]>>, evento)
    ELSE resto_pagina(objs, ss, <<>>, evento)

\* cargar_tendencias_personalizadas on the file it finds.
cargar_tendencias_personalizadas(archivo) ==
    IF ~archivo.existe
    THEN [tendencias |-> json_dict(TENDENCIAS_GLOBALES),
          salida |-> <<"[*] Usando tendencias predefinidas">>]
    ELSE IF archivo.contenido.tipo # "dict"
            \/ ~tiene_len(get(archivo.contenido, "TENDENCIAS_GLOBALES",
                              json_dict(TENDENCIAS_GLOBALES)))
    THEN [tendencias |-> json_dict(TENDENCIAS_GLOBALES),
          salida |-> <<"[*] Cargando tendencias desde", "[!] Error al cargar JSON",
                       "[*] Usando tendencias predefinidas">>]
    ELSE [tendencias |-> get(archivo.contenido, "TENDENCIAS_GLOBALES",
                             json_dict(TENDENCIAS_GLOBALES)),
          salida |-> <<"[*] Cargando tendencias desde",
                       "[OK] tendencias cargadas desde JSON">>]

MaxObjetos == 2

\* Files a user can hand to the uploader or leave as config_tendencias.json:
\* a configuration with one good theme, with a theme whose keyword list is
\* empty, with a theme that has no keyword list, with no theme, with a list
\* or a number in place of the themes, a configuration without the key
\* TENDENCIAS_GLOBALES, a bare dictionary of themes, a list, and text that
\* is not JSON.
Documentos ==
    { json_dict("TENDENCIAS_GLOBALES" :>
                    json_dict("X" :> tema(<<Chars("k")>>, "#000000", "x"))
                @@ "VERSION" :> json_str(Chars("1.0"))),
      json_dict("TENDENCIAS_GLOBALES" :> json_dict("X" :> tema(<<>>, "#000000", "x"))),
      json_dict("TENDENCIAS_GLOBALES" :>
                    json_dict("X" :> [color |-> "#000000", descripcion |-> "x"])),
      json_dict("TENDENCIAS_GLOBALES" :> json_dict(<<>>)),
      json_dict("TENDENCIAS_GLOBALES" :> json_list(<<Chars("X")>>)),
      json_dict("TENDENCIAS_GLOBALES" :> json_int(5)),
      json_dict("VERSION" :> json_str(Chars("1.0"))),
      json_dict("X" :> tema(<<Chars("k")>>, "#000000", "x")),
      json_list(<<1>>),
      JSONDecodeError }

\* What the user does on the page: nothing but look, submit the form,
\* press one of the two buttons.
Eventos ==
    {[tipo |-> "ninguno"], [tipo |-> "restaurar"]}
    \cup {[tipo |-> "agregar", nuevo_id |-> e[1], nueva_desc |-> e[2],
           nuevo_color |-> "#FF5733", nuevas_keywords |-> Chars(e[3])] :
            e \in {<<"MI_TENDENCIA", "d", "k1\n k2 ">>,
                   <<"SOSTENIBILIDAD", "d", "k1">>,
                   <<"MI_TENDENCIA", "d", " \n ">>,
                   <<"", "d", "k1">>}}
    \cup {[tipo |-> "eliminar", tid_eliminar |-> tid] :
            tid \in {"SOSTENIBILIDAD", "MI_TENDENCIA", "X"}}

\* config_tendencias.json: absent, unreadable, or holding a document.
Archivos ==
    {[existe |-> FALSE]}
    \cup {[existe |-> TRUE, contenido |-> c] : c \in Documentos \cup {OSError}}

\* A dashboard session before its first run, and the command line before
\* it loads the dictionary.
InitDict ==
    /\ objetos = <<TENDENCIAS_DEFAULT>>
    /\ session_state = <<>>
    /\ tendencias_script = 0
    /\ uploaded_json = None
    /\ rerun = FALSE
    /\ mensajes = <<>>
    /\ config_path = None
    /\ tendencias_personalizadas = None
    /\ salida = <<>>
    /\ text = NaN
    /\ tematicas_config = None
    /\ extract_context = FALSE
    /\ resultados = None
    /\ SinCorpus
    /\ SinPrograma
    /\ SinNivel
    /\ SinConfig
    /\ SinConsolida
    /\ SinData
    /\ SinNormal
    /\ SinCobertura
    /\ SinNlp
    /\ SinLote

\* A run of the page 'Configurar Tendencias' leaves res.
PaginaDeja(res) ==
    /\ Len(res.objetos) <= MaxObjetos + 1
    /\ objetos' = res.objetos
    /\ session_state' = res.session_state
    /\ rerun' = res.rerun
    /\ mensajes' = res.mensajes
    /\ UNCHANGED <<tendencias_script, config_path, tendencias_personalizadas, salida>>
    /\ UNCHANGED varsDetect
    /\ UNCHANGED tematicas_config
    /\ UNCHANGED varsCorpus
    /\ UNCHANGED varsQuality
    /\ UNCHANGED varsNivel
    /\ UNCHANGED varsConfig
    /\ UNCHANGED varsConsolida
    /\ UNCHANGED varsData
    /\ UNCHANGED varsNormal
    /\ UNCHANGED varsCobertura
    /\ UNCHANGED varsNlp
    /\ UNCHANGED varsLote

\* A run of the page with the event of the user, the file of the uploader
\* being u.
CorrerPagina(u, evento) ==
    /\ config_path = None
    /\ uploaded_json' = u
    /\ PaginaDeja(pagina_config_tendencias(objetos_tras_obtener(objetos, session_state),
                                           session_tras_obtener(objetos, session_state),
                                           u, evento))

\* main of the dashboard on another page: tendencias = obtener_tendencias(),
\* then the analysis of that page with it.
ObtenerTendencias ==
    /\ config_path = None
    /\ objetos' = objetos_tras_obtener(objetos, session_state)
    /\ session_state' = session_tras_obtener(objetos, session_state)
    /\ tendencias_script' = session_state'.tendencias
    /\ rerun' = FALSE
    /\ mensajes' = <<>>
    /\ UNCHANGED <<uploaded_json, config_path, tendencias_personalizadas, salida>>
    /\ UNCHANGED varsDetect
    /\ UNCHANGED tematicas_config
    /\ UNCHANGED varsCorpus
    /\ UNCHANGED varsQuality
    /\ UNCHANGED varsNivel
    /\ UNCHANGED varsConfig
    /\ UNCHANGED varsConsolida
    /\ UNCHANGED varsData
    /\ UNCHANGED varsNormal
    /\ UNCHANGED varsCobertura
    /\ UNCHANGED varsNlp
    /\ UNCHANGED varsLote

\* The user puts a file in the uploader: the page runs with it.
ImportarJSON ==
    \E u \in Documentos : u # uploaded_json /\ CorrerPagina(u, [tipo |-> "ninguno"])

\* The user takes the file out of the uploader: the page runs without it.
QuitarJSON ==
    uploaded_json # None /\ CorrerPagina(None, [tipo |-> "ninguno"])

\* The script runs again after st.rerun(), the widgets being as they were.
Rerun ==
    rerun /\ CorrerPagina(uploaded_json, [tipo |-> "ninguno"])

AgregarTendencia ==
    \E evento \in Eventos : evento.tipo = "agregar" /\ CorrerPagina(uploaded_json, evento)

EliminarTendencia ==
    \E evento \in Eventos : evento.tipo = "eliminar" /\ CorrerPagina(uploaded_json, evento)

RestaurarDefecto ==
    \E evento \in Eventos : evento.tipo = "restaurar" /\ CorrerPagina(uploaded_json, evento)

\* main of analisis_tematico_avanzado: the dictionary of the run.
CargarTendenciasPersonalizadas ==
    /\ config_path = None
    /\ Len(objetos) = 1
    /\ \E archivo \in Archivos :
          /\ config_path' = archivo
          /\ tendencias_personalizadas' = cargar_tendencias_personalizadas(archivo).tendencias
          /\ salida' = cargar_tendencias_personalizadas(archivo).salida
    /\ UNCHANGED <<objetos, session_state, tendencias_script, uploaded_json, rerun, mensajes>>
    /\ UNCHANGED varsDetect
    /\ UNCHANGED tematicas_config
    /\ UNCHANGED varsCorpus
    /\ UNCHANGED varsQuality
    /\ UNCHANGED varsNivel
    /\ UNCHANGED varsConfig
    /\ UNCHANGED varsConsolida
    /\ UNCHANGED varsData
    /\ UNCHANGED varsNormal
    /\ UNCHANGED varsCobertura
    /\ UNCHANGED varsNlp
    /\ UNCHANGED varsLote

NextDict ==
    \/ ObtenerTendencias
    \/ ImportarJSON
    \/ QuitarJSON
    \/ Rerun
    \/ AgregarTendencia
    \/ EliminarTendencia
    \/ RestaurarDefecto
    \/ CargarTendenciasPersonalizadas

SpecDict == InitDict /\ [][NextDict]_vars

----------------------------------------------------------------------------
(* Claims about the trend dictionary *)

\* Every theme of the dictionary has a list of keywords, and it is not empty.
KeywordListsNonEmpty(d) ==
    \A tid \in DOMAIN d : "keywords" \in DOMAIN d[tid] /\ d[tid].keywords # <<>>

\* The dictionary of the dashboard session, once there is one.
EnSesion == "tendencias" \in DOMAIN session_state

DiccionarioDeSesion == objetos[session_state.tendencias]

\* cargar_tendencias_personalizadas has returned.
Cargado == config_path # None

\* C15: in every state reached by the operations on the dictionary
\* (initial load, JSON import, add, remove, restore, load from the external
\* file) every theme has a non-empty keyword list (theme ids are unique by
\* construction: a dictionary is a function of the id); a dictionary with a
\* theme whose keyword list is empty or missing never becomes the dictionary
\* of the session nor the one returned by the loader.
C15_EveryThemeHasKeywords ==
    /\ EnSesion => KeywordListsNonEmpty(DiccionarioDeSesion)
    /\ (Cargado /\ tendencias_personalizadas.tipo = "dict") =>
          KeywordListsNonEmpty(tendencias_personalizadas.valor)

\* C16: no step changes the content of the dict object that a run of the
\* script took from obtener_tendencias before the step.
C16_HeldDictionaryKeepsItsContent ==
    [][tendencias_script # 0 =>
          objetos'[tendencias_script] = objetos[tendencias_script]]_vars

\* The file exists and cannot be read, cannot be parsed, or does not hold a
\* dictionary of themes under a dictionary.
Inutilizable(archivo) ==
    /\ archivo.existe
    /\ \/ archivo.contenido.tipo # "dict"
       \/ get(archivo.contenido, "TENDENCIAS_GLOBALES", archivo.contenido).tipo # "dict"

\* C17: the loader returns nothing for an existing file that is unreadable,
\* unparseable or not a dictionary (it ends in an error), and for no
\* existing file does it return the defaults while reporting success.
C17_UnusableFileEndsInError ==
    Cargado =>
        /\ Inutilizable(config_path) => tendencias_personalizadas = None
        /\ (config_path.existe
            /\ tendencias_personalizadas = json_dict(TENDENCIAS_GLOBALES)) =>
              \A i \in 1..Len(salida) : salida[i] # "[OK] tendencias cargadas desde JSON"

----------------------------------------------------------------------------
(* The consolidation of the workbooks *)

MaxFilas == 2

\* The stems of the workbooks: a file name is kept as its parts, so that
\* str.replace of a part removes it.
Stems == << <<"FormatoRA_", "P1", "_PBOG">>, <<"FormatoRA_", "P2", "_VNAL">> >>

\* s.replace(parte, ""): the part removed wherever it stands.
replace(s, parte) == SelectSeq(s, LAMBDA x : x # parte)

\* The 'Tipo de Saber' cells of the sheets: an empty cell, a cell of blanks,
\* a lower-case tag followed by a blank, a canonical tag, and a tag in
\* upper case.
TiposDeSaber ==
    {NaN, Chars(" "), Chars("saber "), Chars("SaberHacer"), Chars("SABER")}

FilasDeHoja == [Tipo_de_Saber : TiposDeSaber, texto : {<<"b", "a">>}]

\* A workbook: pd.read_excel returns the rows of its sheet 'Paso 5
\* Estrategias micro', or raises when the sheet cannot be read.
Libros(stem) ==
    {[stem |-> stem, legible |-> FALSE, filas |-> <<>>]}
    \cup {[stem |-> stem, legible |-> TRUE, filas |-> f] :
             f \in UNION {[1..n -> FilasDeHoja] : n \in 0..MaxFilas}}

normalizacion_map ==
    { <<Chars("saber"), Chars("Saber")>>,
      <<Chars("saberhacer"), Chars("SaberHacer")>>,
      <<Chars("saberser"), Chars("SaberSer")>>,
      <<Chars("Saber"), Chars("Saber")>>,
      <<Chars("SaberHacer"), Chars("SaberHacer")>>,
      <<Chars("SaberSer"), Chars("SaberSer")>>,
      <<Chars("Saberhacer"), Chars("SaberHacer")>>,
      <<Chars("Saberser"), Chars("SaberSer")>> }

\* normalizacion_map.get(x, x)
normalizar_tipo(x) ==
    IF \E par \in normalizacion_map : par[1] = x
    THEN (CHOOSE par \in normalizacion_map : par[1] = x)[2]
    ELSE x

\* The loop over the workbooks: a table is appended for every workbook that
\* is read, with the column 'Programa' set on its rows.
RECURSIVE leer_libros(_, _, _)
leer_libros(libros, sufijos, n) ==
    IF n = 0 THEN <<>>
    ELSE LET antes == leer_libros(libros, sufijos, n - 1)
             programa_nombre ==
                 LET quitar[i \in 0..Len(sufijos)] ==
                         IF i = 0 THEN libros[n].stem
                         ELSE replace(quitar[i - 1], sufijos[i])
                 IN quitar[Len(sufijos)]
         IN IF libros[n].legible
            THEN Append(antes,
                        [Programa |-> programa_nombre,
                         df |-> [k \in 1..Len(libros[n].filas) |->
                                   [Programa |-> programa_nombre,
                                    Tipo_de_Saber |-> libros[n].filas[k].Tipo_de_Saber,
                                    texto |-> libros[n].filas[k].texto]]])
            ELSE antes

\* pd.concat(all_data, ignore_index=True)
RECURSIVE concat(_, _)
concat(tablas, n) ==
    IF n = 0 THEN <<>> ELSE concat(tablas, n - 1) \o tablas[n].df

\* The two filters on 'Tipo de Saber' and the normalization of the column.
filtrar_y_normalizar(df) ==
    LET con_valor == SelectSeq(df, LAMBDA row : ~isna(row.Tipo_de_Saber))
        no_vacio == SelectSeq(con_valor,
                              LAMBDA row : strip(str(row.Tipo_de_Saber)) # <<>>)
    IN [k \in 1..Len(no_vacio) |->
          [no_vacio[k] EXCEPT !.Tipo_de_Saber =
              normalizar_tipo(strip(str(no_vacio[k].Tipo_de_Saber)))]]

\* The parts of the file name each function removes.
sufijos_avanzado == <<"FormatoRA_", "_PBOG">>
sufijos_micro == <<"FormatoRA_", "_PBOG", "_VNAL", "_PMED">>
sufijos_dashboard == <<"FormatoRA_", "_PBOG", "_VNAL", "_PMED", ".xlsx", ".xls">>

\* The functions return [all_data, df_consolidado, excepcion]; the dashboard
\* takes the name of an uploaded file, which ends in its extension.
cargar_datos_consolidados(libros) ==
    LET tablas == leer_libros(libros, sufijos_avanzado, Len(libros))
    IN IF libros = <<>>
       THEN [all_data |-> <<>>, df_consolidado |-> <<>>, excepcion |-> ""]
       ELSE IF tablas = <<>>
       THEN [all_data |-> tablas, df_consolidado |-> <<>>, excepcion |-> "ValueError"]
       ELSE [all_data |-> tablas,
             df_consolidado |-> filtrar_y_normalizar(concat(tablas, Len(tablas))),
             excepcion |-> ""]

consolidar_estrategias_micro(libros) ==
    LET tablas == leer_libros(libros, sufijos_micro, Len(libros))
    IN IF tablas = <<>>
       THEN [all_data |-> tablas, df_consolidado |-> <<>>, excepcion |-> "ValueError"]
       ELSE [all_data |-> tablas,
             df_consolidado |-> filtrar_y_normalizar(concat(tablas, Len(tablas))),
             excepcion |-> ""]

procesar_archivos(uploaded_files) ==
    LET nombres == [i \in 1..Len(uploaded_files) |->
                       [uploaded_files[i] EXCEPT !.stem = Append(@, ".xlsx")]]
        tablas == leer_libros(nombres, sufijos_dashboard, Len(nombres))
    IN IF tablas = <<>>
       THEN [all_data |-> tablas, df_consolidado |-> <<>>, excepcion |-> ""]
       ELSE [all_data |-> tablas,
             df_consolidado |-> filtrar_y_normalizar(concat(tablas, Len(tablas))),
             excepcion |-> ""]

\* The trend dictionary of the runs that consolidate workbooks.
TendenciasConsolida ==
    [tid \in {"SOSTENIBILIDAD", "INTELIGENCIA ARTIFICIAL"} |->
        [keywords |-> IF tid = "SOSTENIBILIDAD" THEN << <<"a">> >> ELSE << <<"c">> >>]]

InitConsolida ==
    /\ archivos \in {<<>>} \cup {<<l1>> : l1 \in Libros(Stems[1])}
                    \cup {<<l1, l2>> : l1 \in Libros(Stems[1]), l2 \in Libros(Stems[2])}
    /\ all_data = <<>>
    /\ df_consolidado = <<>>
    /\ cargador = ""
    /\ excepcion = ""
    /\ matriz_programas = None
    /\ tendencias = TendenciasConsolida
    /\ tematicas_config = tendencias
    /\ records = <<>>
    /\ df_matriz = None
    /\ resultados_tendencias = None
    /\ resultados_tend = None
    /\ text = NaN
    /\ extract_context = FALSE
    /\ resultados = None
    /\ SinPrograma
    /\ SinNivel
    /\ SinConfig
    /\ SinDict
    /\ SinData
    /\ SinNormal
    /\ SinCobertura
    /\ SinNlp
    /\ SinLote

\* What a consolidating function leaves.
Consolida(nombre, res) ==
    /\ cargador = ""
    /\ cargador' = nombre
    /\ all_data' = res.all_data
    /\ df_consolidado' = res.df_consolidado
    /\ excepcion' = res.excepcion
    /\ UNCHANGED <<archivos, matriz_programas>>
    /\ UNCHANGED varsDetect
    /\ UNCHANGED <<tematicas_config>>
    /\ UNCHANGED varsCorpus
    /\ UNCHANGED varsQuality
    /\ UNCHANGED varsNivel
    /\ UNCHANGED varsConfig
    /\ UNCHANGED varsDict
    /\ UNCHANGED varsData
    /\ UNCHANGED varsNormal
    /\ UNCHANGED varsCobertura
    /\ UNCHANGED varsNlp
    /\ UNCHANGED varsLote

\* analisis_tematico_avanzado.main, step 1.
CargarDatosConsolidados ==
    /\ cargador = ""
    /\ \E res \in {cargar_datos_consolidados(archivos)} :
          Consolida("cargar_datos_consolidados", res)

\* analisis_estrategias_micro.main, its first step.
ConsolidarEstrategiasMicro ==
    /\ cargador = ""
    /\ \E res \in {consolidar_estrategias_micro(archivos)} :
          Consolida("consolidar_estrategias_micro", res)

\* dashboard_tematico.main: the uploaded files are consolidated; without
\* uploaded files the script stops before.
ProcesarArchivos ==
    /\ cargador = ""
    /\ archivos # <<>>
    /\ \E res \in {procesar_archivos(archivos)} :
          Consolida("procesar_archivos", res)

\* The matrix of a run: main goes on to the analyses only when the table it
\* was given is not empty.
Matriz(nombre, m) ==
    /\ cargador = nombre
    /\ excepcion = ""
    /\ df_consolidado # <<>>
    /\ matriz_programas = None
    /\ matriz_programas' = m
    /\ UNCHANGED <<archivos, all_data, df_consolidado, cargador, excepcion>>
    /\ UNCHANGED varsDetect
    /\ UNCHANGED <<tematicas_config>>
    /\ UNCHANGED varsCorpus
    /\ UNCHANGED varsQuality
    /\ UNCHANGED varsNivel
    /\ UNCHANGED varsConfig
    /\ UNCHANGED varsDict
    /\ UNCHANGED varsData
    /\ UNCHANGED varsNormal
    /\ UNCHANGED varsCobertura
    /\ UNCHANGED varsNlp
    /\ UNCHANGED varsLote

\* analisis_tematico_avanzado.main, step 4.
MatrizAvanzado ==
    /\ cargador = "cargar_datos_consolidados"
    /\ df_consolidado # <<>>
    /\ \E res \in {analisis_tendencias_globales(df_consolidado, tendencias)} :
          Matriz("cargar_datos_consolidados", res.matriz_tendencias)

\* dashboard_tematico.main: the trends of the consolidated table.
MatrizDashboard ==
    /\ cargador = "procesar_archivos"
    /\ df_consolidado # <<>>
    /\ \E res \in {analizar_tendencias(df_consolidado, tendencias)} :
          Matriz("procesar_archivos", res.matriz)

NextConsolida ==
    \/ CargarDatosConsolidados
    \/ ConsolidarEstrategiasMicro
    \/ ProcesarArchivos
    \/ MatrizAvanzado
    \/ MatrizDashboard

SpecConsolida == InitConsolida /\ [][NextConsolida]_vars

----------------------------------------------------------------------------
(* Claims about the consolidated records *)

\* A consolidating function has returned its table.
Consolidado == cargador # "" /\ excepcion = ""

\* The three canonical values of the knowledge-type tag.
TiposCanonicos == {Chars("Saber"), Chars("SaberHacer"), Chars("SaberSer")}

\* C18: after the consolidation of the workbooks every record of the table
\* carries one of the three canonical knowledge-type tags, Saber, SaberHacer
\* or SaberSer: the rows whose tag cannot be normalized are not in the table.
C18_ConsolidatedTagsAreCanonical ==
    Consolidado =>
        \A k \in 1..Len(df_consolidado) :
            df_consolidado[k].Tipo_de_Saber \in TiposCanonicos

\* The rows of df_consolidado that belong to a program.
FilasDe(p) == {k \in 1..Len(df_consolidado) : df_consolidado[k].Programa = p}

\* The matrix programa x tendencia of the run has been built.
ConMatriz == matriz_programas # None

\* C19: a program whose workbook was loaded and that has no record left
\* after the filtering has a row in the matrix programa x tendencia, with 0
\* for every trend.
C19_LoadedProgramWithoutRecordsHasZeroRow ==
    ConMatriz =>
        \A i \in 1..Len(all_data) :
            FilasDe(all_data[i].Programa) = {} =>
                /\ all_data[i].Programa \in DOMAIN matriz_programas
                /\ \A tid \in DOMAIN tendencias :
                      matriz_programas[all_data[i].Programa][tid] = 0

----------------------------------------------------------------------------
(* Claims about a program without competencies and outcomes *)

\* The table of competencies and the table of learning outcomes of the
\* program are empty.
ProgramaVacio ==
    /\ programa_data.competencias = <<>>
    /\ programa_data.resultados_aprendizaje = <<>>

\* The indicators computed from the two tables, and the counts of their rows.
IndicadoresDeTablasVacias ==
    /\ reporte.resumen.total_competencias = 0
    /\ reporte.resumen.total_ra = 0
    /\ reporte.balance_tipo_saber.Saber = 0
    /\ reporte.balance_tipo_saber.SaberHacer = 0
    /\ reporte.balance_tipo_saber.SaberSer = 0
    /\ reporte.balance_tipo_saber.desviacion_estandar = 0
    /\ reporte.complejidad_cognitiva.Basico = 0
    /\ reporte.complejidad_cognitiva.Intermedio = 0
    /\ reporte.complejidad_cognitiva.Avanzado = 0
    /\ reporte.complejidad_cognitiva.nivel_promedio = 0
    /\ reporte.complejidad_cognitiva.indice_complejidad = 0
    /\ reporte.cobertura_competencias.total_competencias = 0
    /\ reporte.cobertura_competencias.competencias_con_ra = 0
    /\ reporte.cobertura_competencias.porcentaje_cobertura = 0
    /\ reporte.cobertura_competencias.promedio_ra_por_competencia = 0
    /\ reporte.completitud.completitud_competencias = 0
    /\ reporte.completitud.completitud_ra = 0

\* C20: for a program whose table of competencies and table of learning
\* outcomes are empty, generar_reporte_indicadores returns a report in which
\* the indicators of the two tables are 0 and the composite score is 0.
C20_EmptyProgramReportIsZero ==
    (Reported /\ ProgramaVacio) =>
        /\ IndicadoresDeTablasVacias
        /\ reporte.score_calidad = 0

----------------------------------------------------------------------------
(* One program handed to the analyzer and to the detector *)

\* The learning outcomes with their text: the rows of FilasRA with the column
\* 'Resultados Aprendizaje', filled or empty.
FilasRAConTexto ==
    {fila @@ ("Resultados Aprendizaje" :> texto) :
        fila \in FilasRA, texto \in {Chars("ab"), NaN}}

\* The tables of learning outcomes: none, or one outcome.
TablasRAConTexto == {<<>>} \cup {<<fila>> : fila \in FilasRAConTexto}

\* The themes of the detector in these runs: one found by "a", one by "b".
TematicasData ==
    [t \in {"SOSTENIBILIDAD", "INTELIGENCIA ARTIFICIAL"} |->
        [keywords |-> IF t = "SOSTENIBILIDAD" THEN << <<"a">> >> ELSE << <<"b">> >>]]

RECURSIVE join_texts(_, _, _)
\* concat_texts(row): " ".join of the text columns that the row has and that
\* are not NaN, over the first n columns.
join_texts(row, text_columns, n) ==
    IF n = 0 THEN <<>>
    ELSE LET antes == join_texts(row, text_columns, n - 1)
             col == text_columns[n]
         IN IF col \in DOMAIN row /\ ~isna(row[col])
            THEN (IF \E k \in 1..(n - 1) :
                        text_columns[k] \in DOMAIN row /\ ~isna(row[text_columns[k]])
                  THEN antes \o <<" ">> ELSE antes) \o str(row[col])
            ELSE antes

\* A cell that holds a bool or an int, kept as its text.
celda_bool(b) == IF b THEN Chars("True") ELSE Chars("False")
celda_int(n) == <<CHOOSE c \in {"0", "1", "2", "3", "4", "5", "6", "7", "8", "9"} :
                     c = SubSeq("0123456789", n + 1, n + 1)>>

\* The cells detect_in_dataframe writes on one row of df, given the text of
\* the row and what detect_in_text found in it.
celdas_de(_texto_completo, deteccion, config) ==
    [c \in {"_texto_completo"}
              \cup {tm \o "_presente" : tm \in DOMAIN config}
              \cup {tm \o "_coincidencias" : tm \in DOMAIN config} |->
          IF c = "_texto_completo" THEN _texto_completo
          ELSE IF \E tm \in DOMAIN config : c = tm \o "_presente"
          THEN celda_bool(deteccion[CHOOSE tm \in DOMAIN config : c = tm \o "_presente"].presente)
          ELSE celda_int(deteccion[CHOOSE tm \in DOMAIN config :
                                      c = tm \o "_coincidencias"].num_coincidencias)]

texto_y_celdas(_texto_completo, config) ==
    celdas_de(_texto_completo, detect_in_text(_texto_completo, config, FALSE, 0), config)

columnas_de_fila(row, text_columns, config) ==
    texto_y_celdas(join_texts(row, text_columns, Len(text_columns)), config)

\* detect_in_dataframe, the table it was given: the columns are set on df
\* itself, and '_texto_completo' is dropped only from the copy it returns.
df_tras_deteccion(df, text_columns, config) ==
    [i \in 1..Len(df) |-> columnas_de_fila(df[i], text_columns, config) @@ df[i]]

\* detect_in_dataframe, the table it returns.
df_devuelto(df, text_columns, config) ==
    LET con == df_tras_deteccion(df, text_columns, config)
    IN [i \in 1..Len(df) |->
          [c \in DOMAIN con[i] \ {"_texto_completo"} |-> con[i][c]]]

\* df[f'{tematica}_presente'].sum() on a table that has the column.
frecuencia_columna(df, tematica) ==
    Cardinality({i \in 1..Len(df) : df[i][tematica \o "_presente"] = celda_bool(TRUE)})

\* analyze_programa on the dict of extract_all: [data, tematicas], data being
\* the dict after the call.
analyze_programa_data(data, config) ==
    LET df_comp == IF empty(data.competencias) THEN data.competencias
                   ELSE df_devuelto(data.competencias, <<"Redacción competencia">>, config)
        df_ra == IF empty(data.resultados_aprendizaje) THEN data.resultados_aprendizaje
                 ELSE df_devuelto(data.resultados_aprendizaje,
                                  <<"Resultados Aprendizaje">>, config)
        resumen == [tm \in DOMAIN config |->
                      resumen_tematica(
                          IF empty(df_comp) THEN 0 ELSE frecuencia_columna(df_comp, tm),
                          IF empty(df_ra) THEN 0 ELSE frecuencia_columna(df_ra, tm))]
    IN [data |-> [data EXCEPT
                    !.competencias =
                        IF empty(@) THEN @
                        ELSE df_tras_deteccion(@, <<"Redacción competencia">>, config),
                    !.resultados_aprendizaje =
                        IF empty(@) THEN @
                        ELSE df_tras_deteccion(@, <<"Resultados Aprendizaje">>, config)],
        tematicas |-> analisis_de(data.metadata.programa, resumen, config)]

\* process_single_program after extract_all: data is held by the analyzer
\* and given to the detector.
InitData ==
    /\ \E competencias \in TablasCompetencias, meso \in TablasMeso, micro \in TablasMicro,
          ra \in TablasRAConTexto :
          extraido = [metadata |-> [programa |-> "P1"],
                      competencias |-> competencias,
                      resultados_aprendizaje |-> ra,
                      estrategias_meso |-> meso,
                      estrategias_micro |-> micro]
    /\ programa_data = extraido
    /\ reporte = None
    /\ tematicas_programa = None
    /\ tematicas_config = TematicasData
    /\ text = NaN
    /\ extract_context = FALSE
    /\ resultados = None
    /\ SinCorpus
    /\ SinNivel
    /\ SinConfig
    /\ SinDict
    /\ SinConsolida
    /\ SinNormal
    /\ SinCobertura
    /\ SinNlp
    /\ SinLote

\* analyzer.generar_reporte_indicadores(): the analyzer reads the tables of
\* data, which it holds by reference.
AnalizarIndicadores ==
    /\ reporte' \in generar_reporte_indicadores(programa_data)
    /\ UNCHANGED <<programa_data, extraido, tematicas_programa>>
    /\ UNCHANGED varsDetect
    /\ UNCHANGED tematicas_config
    /\ UNCHANGED varsCorpus
    /\ UNCHANGED varsNivel
    /\ UNCHANGED varsConfig
    /\ UNCHANGED varsDict
    /\ UNCHANGED varsConsolida
    /\ UNCHANGED varsNormal
    /\ UNCHANGED varsCobertura
    /\ UNCHANGED varsNlp
    /\ UNCHANGED varsLote

\* detector.analyze_programa(data)
DetectarTematicas ==
    /\ \E res \in {analyze_programa_data(programa_data, tematicas_config)} :
          /\ programa_data' = res.data
          /\ tematicas_programa' = res.tematicas
    /\ UNCHANGED <<reporte, extraido>>
    /\ UNCHANGED varsDetect
    /\ UNCHANGED tematicas_config
    /\ UNCHANGED varsCorpus
    /\ UNCHANGED varsNivel
    /\ UNCHANGED varsConfig
    /\ UNCHANGED varsDict
    /\ UNCHANGED varsConsolida
    /\ UNCHANGED varsNormal
    /\ UNCHANGED varsCobertura
    /\ UNCHANGED varsNlp
    /\ UNCHANGED varsLote

NextData ==
    \/ AnalizarIndicadores
    \/ DetectarTematicas

SpecData == InitData /\ [][NextData]_vars

----------------------------------------------------------------------------
(* Claims about the runs on one program *)

\* C21: thematic detection leaves the tables of the program as they were
\* extracted, and the quality report, whenever it is computed, is a report
\* of the tables as they were extracted.
C21_DetectionLeavesTablesAndReport ==
    /\ programa_data = extraido
    /\ Reported => reporte \in generar_reporte_indicadores(extraido)

----------------------------------------------------------------------------
(* The normalizers *)

MaxNombreLen == 3

\* The characters of the inputs: a letter, an accented capital, a letter with
\* diaeresis, a blank, a line break and a hyphen.
AlfabetoNormal == {"a", "Á", "ü", " ", "\n", "-"}

EntradasNormal == {NaN} \cup UNION {[1..n -> AlfabetoNormal] : n \in 0..MaxNombreLen}

\* [a-z0-9]
EsAlfanumerico(c) == c \in ToSet(Chars("abcdefghijklmnopqrstuvwxyz0123456789"))

\* re.sub(r'[^a-z0-9\s]', '', s)
sub_especiales(s) == SelectSeq(s, LAMBDA c : EsAlfanumerico(c) \/ IsSpace(c))

RECURSIVE sub_espacios(_, _)
\* re.sub(r'\s+', ' ', s) on the first n characters of s.
sub_espacios(s, n) ==
    IF n = 0 THEN <<>>
    ELSE IF ~IsSpace(s[n]) THEN Append(sub_espacios(s, n - 1), s[n])
    ELSE IF n > 1 /\ IsSpace(s[n - 1]) THEN sub_espacios(s, n - 1)
    ELSE Append(sub_espacios(s, n - 1), " ")

\* ExcelExtractor._normalize_column_name
_normalize_column_name(col_name) ==
    IF isna(col_name) THEN <<>>
    ELSE LET recortado == strip(lower(str(col_name)))
             sin_tildes == [i \in 1..Len(recortado) |-> ReplaceChar(recortado[i])]
             sin_especiales == sub_especiales(sin_tildes)
         IN sub_espacios(sin_especiales, Len(sin_especiales))

InitNormal ==
    /\ entrada_normalizar \in EntradasNormal
    /\ normalizador = ""
    /\ normalizados = <<>>
    /\ text = NaN
    /\ tematicas_config = None
    /\ extract_context = FALSE
    /\ resultados = None
    /\ SinCorpus
    /\ SinPrograma
    /\ SinNivel
    /\ SinConfig
    /\ SinDict
    /\ SinConsolida
    /\ SinData
    /\ SinCobertura
    /\ SinNlp
    /\ SinLote

\* What a call of a normalizer leaves: it was given the input, or what the
\* call before returned.
Normaliza(nombre, resultado) ==
    /\ normalizador \in {"", nombre}
    /\ Len(normalizados) < 2
    /\ normalizador' = nombre
    /\ normalizados' = Append(normalizados, resultado)
    /\ UNCHANGED entrada_normalizar
    /\ UNCHANGED varsDetect
    /\ UNCHANGED tematicas_config
    /\ UNCHANGED varsCorpus
    /\ UNCHANGED varsQuality
    /\ UNCHANGED varsNivel
    /\ UNCHANGED varsConfig
    /\ UNCHANGED varsDict
    /\ UNCHANGED varsConsolida
    /\ UNCHANGED varsData
    /\ UNCHANGED varsCobertura
    /\ UNCHANGED varsNlp
    /\ UNCHANGED varsLote

\* The argument of the next call.
ArgumentoNormal ==
    IF normalizados = <<>> THEN entrada_normalizar ELSE normalizados[Len(normalizados)]

NormalizeText ==
    \E resultado \in {_normalize_text(ArgumentoNormal)} :
        Normaliza("_normalize_text", resultado)

NormalizeColumnName ==
    \E resultado \in {_normalize_column_name(ArgumentoNormal)} :
        Normaliza("_normalize_column_name", resultado)

NextNormal ==
    \/ NormalizeText
    \/ NormalizeColumnName

SpecNormal == InitNormal /\ [][NextNormal]_vars

----------------------------------------------------------------------------
(* Claims about the normalizers *)

\* A normalizer has been applied twice in a row.
DosVeces == Len(normalizados) = 2

\* C22: for the text normalizer and for the column-name normalizer, applying
\* the normalizer to what it returned gives what it returned.
C22_NormalizersAreIdempotent ==
    DosVeces => normalizados[2] = normalizados[1]

\* The text normalizer has been applied to the input.
TextoNormalizado == normalizador = "_normalize_text" /\ normalizados # <<>>

\* The capital letters, and the accented vowels, ñ and ü.
LetrasNoNormales ==
    {"A", "B", "C", "D", "E", "P", "R", "Á", "á", "é", "í", "ó", "ú", "ñ", "ü"}

\* C23: what the text normalizer returns has no capital letter, no accented
\* vowel, ñ or ü, no whitespace other than single blanks between words, and
\* no whitespace at its ends; for a missing input it is the empty string.
C23_NormalizedTextIsCanonical ==
    TextoNormalizado =>
        /\ \A i \in 1..Len(normalizados[1]) :
              /\ normalizados[1][i] \notin LetrasNoNormales
              /\ IsSpace(normalizados[1][i]) =>
                    /\ normalizados[1][i] = " "
                    /\ 1 < i /\ i < Len(normalizados[1])
                    /\ ~IsSpace(normalizados[1][i - 1])
        /\ isna(entrada_normalizar) => normalizados[1] = <<>>

----------------------------------------------------------------------------
(* Claims about the context of a match *)

\* The offsets at which the keyword occurs in the text, compared after
\* normalization.
OccursAt(k, s) == {p \in 0..Len(s) : PrefixAt(Fold(k), Fold(s), p)}

\* The first of them.
FirstOccurrence(k, s) == CHOOSE p \in OccursAt(k, s) : \A q \in OccursAt(k, s) : p <= q

Ellipsis == <<".", ".", ".">>

\* ctx is a snippet of s around the occurrence of k at offset p: a piece of s
\* that holds the occurrence and at most w characters on each side of it,
\* with the mark before it exactly when s has more than w characters before
\* the occurrence, and the mark after it exactly when s has more than w
\* characters after the occurrence.
IsSnippet(ctx, k, s, p, w) ==
    \E a \in 0..p, b \in (p + Len(k))..Len(s) :
        /\ p - a <= w
        /\ b - (p + Len(k)) <= w
        /\ ctx = (IF p > w THEN Ellipsis ELSE <<>>)
                 \o SubSeq(s, a + 1, b)
                 \o (IF p + Len(k) + w < Len(s) THEN Ellipsis ELSE <<>>)

\* The first keyword of the theme, in the order of its list, that matches
\* the text; 0 when none does.
FirstMatching(t) ==
    LET ks == tematicas_config[t].keywords
        hits == {i \in 1..Len(ks) : WordStartsWith(Fold(ks[i]), Fold(text)) # {}}
    IN IF hits = {} THEN 0 ELSE CHOOSE i \in hits : \A j \in hits : i <= j

\* C24: for a keyword that occurs in the text, _extract_context returns a
\* non-empty snippet of the original text with the first occurrence of the
\* keyword and at most window characters before and after it, with '...' in
\* front exactly when text was cut off before it and '...' behind exactly
\* when text was cut off after it; for a keyword that does not occur it
\* returns the empty string; and detect_in_text reports, for a theme, the
\* context of the first keyword that matched and no other.
C24_ContextAroundFirstOccurrence ==
    (Detected /\ text # NaN) =>
        \A t \in Tematicas :
            /\ \A k \in KeywordsOf(t) :
                  IF OccursAt(k, text) = {}
                  THEN _extract_context(text, k, context_window) = <<>>
                  ELSE /\ _extract_context(text, k, context_window) # <<>>
                       /\ IsSnippet(_extract_context(text, k, context_window), k, text,
                                    FirstOccurrence(k, text), context_window)
            /\ resultados[t].contexto =
                  IF extract_context /\ FirstMatching(t) > 0
                  THEN _extract_context(text, tematicas_config[t].keywords[FirstMatching(t)],
                                        context_window)
                  ELSE <<>>

\* C24 witness: a context was asked for and the context of a theme begins
\* with the mark of truncation, its keyword standing after the first window
\* of the text.
C24_Witness ==
    /\ Detected
    /\ extract_context
    /\ \E t \in Tematicas :
          /\ resultados[t].presente
          /\ Len(resultados[t].contexto) > 3
          /\ SubSeq(resultados[t].contexto, 1, 3) = Ellipsis

----------------------------------------------------------------------------
(* Coverage of thematic cores: analisis_cobertura_tematica
   (analisis_tematico_avanzado.py) and analizar_cobertura
   (dashboard_tematico.py) *)

\* The most rows the consolidated table has.
MaxFilasCobertura == 2

\* Fragments a cell of 'Nucleos tematicos' is written with: a core, a
\* numbered core, a bare number of an enumeration, a short word.
Piezas == {Chars("abcd"), Chars("1. abcd"), Chars("123."), Chars(" ab ")}

Separadores == {<<",">>, <<";", "\n">>}

\* The cells: empty in the sheet, one fragment, or two with a separator.
CeldasNucleos ==
    {NaN} \cup Piezas \cup {p \o s \o q : p \in Piezas, s \in Separadores, q \in Piezas}

TablasNucleos ==
    UNION {[1..n -> CeldasNucleos] : n \in 1..MaxFilasCobertura}

\* float values: a finite value, nan or -inf.
Finito(v) == [clase |-> "finito", valor |-> v]
nan == [clase |-> "nan", valor |-> 0]
menos_inf == [clase |-> "-inf", valor |-> 0]

\* str(row['Nucleos tematicos'])
str_celda(celda) == IF isna(celda) THEN Chars("nan") ELSE celda

EsSeparador(c) == c \in {",", ";", "\n"}

RECURSIVE re_split(_, _, _)
\* re.split(r'[,;\n]+', s): the pieces of s between the runs of separators,
\* read from character i on with the pieces closed so far and the piece
\* being read.
re_split(s, i, actual) ==
    IF i > Len(s) THEN <<actual>>
    ELSE IF EsSeparador(s[i])
    THEN IF i > 1 /\ EsSeparador(s[i - 1])
         THEN re_split(s, i + 1, actual)
         ELSE <<actual>> \o re_split(s, i + 1, <<>>)
    ELSE re_split(s, i + 1, Append(actual, s[i]))

EsDigito(c) == c \in {"0", "1", "2", "3", "4", "5", "6", "7", "8", "9"}

\* The characters of texto from the first one that is not whitespace.
lstrip(texto) ==
    IF \A i \in 1..Len(texto) : IsSpace(texto[i]) THEN <<>>
    ELSE SubSeq(texto, CHOOSE i \in 1..Len(texto) :
                          ~IsSpace(texto[i]) /\ \A j \in 1..(i - 1) : IsSpace(texto[j]),
                Len(texto))

\* re.sub(r'^\d+\.\s*', '', texto)
_limpiar_nucleo(texto) ==
    LET digitos == {d \in 1..Len(texto) : \A j \in 1..d : EsDigito(texto[j])}
    IN IF digitos = {} THEN texto
       ELSE LET d == CHOOSE d \in digitos : \A e \in digitos : d >= e
            IN IF d < Len(texto) /\ texto[d + 1] = "."
               THEN lstrip(SubSeq(texto, d + 2, Len(texto)))
               ELSE texto

\* [n.strip() for n in nucleos if n.strip() and len(n.strip()) > 3]
nucleos_de_celda(nucleos_raw) ==
    LET nucleos == re_split(nucleos_raw, 1, <<>>)
        limpio == [i \in 1..Len(nucleos) |-> strip(nucleos[i])]
        largo(n) == n # <<>> /\ Len(n) > 3
    IN SelectSeq(limpio, largo)

\* [_limpiar_nucleo(n.strip()) for n in nucleos if n.strip() and len(n.strip()) > 3]
nucleos_limpios_de_celda(nucleos_raw) ==
    [i \in 1..Len(nucleos_de_celda(nucleos_raw)) |->
        _limpiar_nucleo(nucleos_de_celda(nucleos_raw)[i])]

RECURSIVE nucleos_list(_, _, _)
\* for row in df.iterrows(): if nucleos_raw and nucleos_raw != 'nan':
\* nucleos_list.extend(nucleos), with or without _limpiar_nucleo.
nucleos_list(df, limpiar, n) ==
    IF n = 0 THEN <<>>
    ELSE nucleos_list(df, limpiar, n - 1)
         \o (IF str_celda(df[n]) # <<>> /\ str_celda(df[n]) # Chars("nan")
             THEN IF limpiar THEN nucleos_limpios_de_celda(str_celda(df[n]))
                  ELSE nucleos_de_celda(str_celda(df[n]))
             ELSE <<>>)

\* Counter(nucleos_list)
Counter(lista) == [e \in ToSet(lista) |-> cuenta(lista, e)]

\* np.log2 of 1, 2, ..., in thousandths.
log2_milesimas == <<0, 1000, 1585, 2000, 2322, 2585, 2807, 3000, 3170>>

\* np.log2(n)
log2(n) == IF n = 0 THEN menos_inf ELSE Finito(log2_milesimas[n])

RECURSIVE suma_f_log2(_, _)
\* The sum of f * log2(f) over the frequencies of the counter, in thousandths.
suma_f_log2(counter, claves) ==
    IF claves = {} THEN 0
    ELSE LET e == CHOOSE e \in claves : TRUE
         IN counter[e] * log2_milesimas[counter[e]] + suma_f_log2(counter, claves \ {e})

RECURSIVE suma_valores(_, _)
\* sum(nucleos_counter.values()), frecuencias.sum()
suma_valores(counter, claves) ==
    IF claves = {} THEN 0
    ELSE LET e == CHOOSE e \in claves : TRUE
         IN counter[e] + suma_valores(counter, claves \ {e})

\* frecuencias / frecuencias.sum() and entropy(probabilidades, base=2), in
\* thousandths: log2(T) - sum(f * log2(f)) / T for the total T of the
\* frequencies; the sum over no frequency is 0.0.
entropy(counter) ==
    LET T == suma_valores(counter, DOMAIN counter)
    IN IF DOMAIN counter = {} THEN Finito(0)
       ELSE Finito((T * log2_milesimas[T] - suma_f_log2(counter, DOMAIN counter)) \div T)

\* (shannon_entropy / max_entropy) * 100 in float arithmetic, in hundredths:
\* a finite value over -inf is 0.0, 0.0 over 0.0 is nan.
indice_de(shannon_entropy, max_entropy) ==
    IF shannon_entropy.clase = "nan" \/ max_entropy.clase = "nan" THEN nan
    ELSE IF max_entropy.clase = "-inf" THEN Finito(0)
    ELSE IF max_entropy.valor = 0 THEN nan
    ELSE Finito((shannon_entropy.valor * 10000) \div max_entropy.valor)

\* analisis_cobertura_tematica(df): the counts and the index of diversity.
analisis_cobertura_tematica(df) ==
    LET nucleos_counter == Counter(nucleos_list(df, FALSE, Len(df)))
    IN [nucleos_unicos |-> Cardinality(DOMAIN nucleos_counter),
        total_menciones |-> suma_valores(nucleos_counter, DOMAIN nucleos_counter),
        top_nucleos |-> nucleos_counter,
        shannon_entropy |-> entropy(nucleos_counter),
        indice_diversidad |-> indice_de(entropy(nucleos_counter),
                                        log2(Cardinality(DOMAIN nucleos_counter)))]

\* analizar_cobertura(df): the counts and the index of diversity.
analizar_cobertura(df) ==
    LET nucleos_counter == Counter(nucleos_list(df, TRUE, Len(df)))
    IN [nucleos_counter |-> nucleos_counter,
        nucleos_unicos |-> Cardinality(DOMAIN nucleos_counter),
        total_menciones |-> suma_valores(nucleos_counter, DOMAIN nucleos_counter),
        shannon |-> IF Cardinality(DOMAIN nucleos_counter) > 1
                    THEN entropy(nucleos_counter) ELSE Finito(0),
        diversidad |-> IF Cardinality(DOMAIN nucleos_counter) > 1
                       THEN indice_de(entropy(nucleos_counter),
                                      log2(Cardinality(DOMAIN nucleos_counter)))
                       ELSE Finito(0)]

InitCobertura ==
    /\ df_nucleos \in TablasNucleos
    /\ analisis_cobertura = ""
    /\ resultados_cobertura = None
    /\ text = NaN
    /\ tematicas_config = None
    /\ extract_context = FALSE
    /\ resultados = None
    /\ SinCorpus
    /\ SinPrograma
    /\ SinNivel
    /\ SinConfig
    /\ SinDict
    /\ SinConsolida
    /\ SinData
    /\ SinNormal
    /\ SinNlp
    /\ SinLote

\* main (analisis_tematico_avanzado.py): the analysis of coverage of the
\* consolidated table, which is not empty.
AnalisisCoberturaTematica ==
    /\ analisis_cobertura = ""
    /\ analisis_cobertura' = "avanzado"
    /\ resultados_cobertura' = analisis_cobertura_tematica(df_nucleos)
    /\ UNCHANGED df_nucleos
    /\ UNCHANGED varsDetect
    /\ UNCHANGED tematicas_config
    /\ UNCHANGED varsCorpus
    /\ UNCHANGED varsQuality
    /\ UNCHANGED varsNivel
    /\ UNCHANGED varsConfig
    /\ UNCHANGED varsDict
    /\ UNCHANGED varsConsolida
    /\ UNCHANGED varsData
    /\ UNCHANGED varsNormal
    /\ UNCHANGED varsNlp
    /\ UNCHANGED varsLote

\* main (dashboard_tematico.py): the analysis of coverage of the
\* consolidated table, which is not empty.
AnalizarCobertura ==
    /\ analisis_cobertura = ""
    /\ analisis_cobertura' = "dashboard"
    /\ resultados_cobertura' = analizar_cobertura(df_nucleos)
    /\ UNCHANGED df_nucleos
    /\ UNCHANGED varsDetect
    /\ UNCHANGED tematicas_config
    /\ UNCHANGED varsCorpus
    /\ UNCHANGED varsQuality
    /\ UNCHANGED varsNivel
    /\ UNCHANGED varsConfig
    /\ UNCHANGED varsDict
    /\ UNCHANGED varsConsolida
    /\ UNCHANGED varsData
    /\ UNCHANGED varsNormal
    /\ UNCHANGED varsNlp
    /\ UNCHANGED varsLote

NextCobertura ==
    \/ AnalisisCoberturaTematica
    \/ AnalizarCobertura

SpecCobertura == InitCobertura /\ [][NextCobertura]_vars

(* Claims about the coverage of thematic cores *)

\* A coverage analysis has returned.
Cubierto == resultados_cobertura # None

\* The table of tags and the index of diversity of the analysis that ran.
TablaDeNucleos ==
    IF analisis_cobertura = "avanzado" THEN resultados_cobertura.top_nucleos
    ELSE resultados_cobertura.nucleos_counter

IndiceDeDiversidad ==
    IF analisis_cobertura = "avanzado" THEN resultados_cobertura.indice_diversidad
    ELSE resultados_cobertura.diversidad

\* C25: with fewer than 2 distinct tags the index of diversity is exactly 0,
\* not a failure and not an undefined value; with 2 or more it is a number
\* between 0 and 100.
C25_DiversityIndexDefined ==
    Cubierto =>
        /\ IndiceDeDiversidad.clase = "finito"
        /\ IF Cardinality(DOMAIN TablaDeNucleos) < 2
           THEN IndiceDeDiversidad.valor = 0
           ELSE IndiceDeDiversidad.valor \in 0..10000

\* The fragments of a cell: the longest stretches <<a, b>> of its characters
\* without a comma, a semicolon or a line break.
Fragmentos(s) ==
    {ab \in (1..Len(s)) \X (1..Len(s)) :
        /\ ab[1] <= ab[2]
        /\ \A i \in ab[1]..ab[2] : ~EsSeparador(s[i])
        /\ ab[1] = 1 \/ EsSeparador(s[ab[1] - 1])
        /\ ab[2] = Len(s) \/ EsSeparador(s[ab[2] + 1])}

\* A fragment without its leading enumeration prefix such as '1. '.
SinPrefijo(t) ==
    IF \E d \in 1..(Len(t) - 1) : t[d + 1] = "." /\ \A j \in 1..d : EsDigito(t[j])
    THEN LET d == CHOOSE d \in 1..(Len(t) - 1) :
                      t[d + 1] = "." /\ \A j \in 1..d : EsDigito(t[j])
             resto == SubSeq(t, d + 2, Len(t))
             negros == {i \in 1..Len(resto) : resto[i] # " "}
         IN IF negros = {} THEN <<>>
            ELSE SubSeq(resto, CHOOSE i \in negros : \A j \in negros : i <= j, Len(resto))
    ELSE t

\* The fragments of the table that count: row, first and last character of
\* a fragment that is longer than 3 characters once trimmed.
FragmentosContados ==
    {rab \in (1..Len(df_nucleos)) \X (1..20) \X (1..20) :
        /\ ~isna(df_nucleos[rab[1]])
        /\ <<rab[2], rab[3]>> \in Fragmentos(df_nucleos[rab[1]])
        /\ Len(strip(SubSeq(df_nucleos[rab[1]], rab[2], rab[3]))) > 3}

\* The tag a counted fragment stands for.
EtiquetaDe(rab) == SinPrefijo(strip(SubSeq(df_nucleos[rab[1]], rab[2], rab[3])))

\* C30: the table of tags counts exactly the fragments obtained by splitting
\* the field of thematic cores on comma, semicolon and line break, trimming
\* them, discarding those of 3 characters or fewer and then removing a
\* leading enumeration prefix; no other string, and not the empty string,
\* is a tag of the table.
C30_TagTableCountsCleanFragments ==
    Cubierto =>
        /\ DOMAIN TablaDeNucleos = {EtiquetaDe(rab) : rab \in FragmentosContados}
        /\ \A e \in DOMAIN TablaDeNucleos :
              TablaDeNucleos[e] = Cardinality({rab \in FragmentosContados : EtiquetaDe(rab) = e})
        /\ <<>> \notin DOMAIN TablaDeNucleos

----------------------------------------------------------------------------
(* Similarity between subjects: analisis_mineria_texto
   (analisis_tematico_avanzado.py) and analizar_nlp (dashboard_tematico.py) *)

\* The most subjects the consolidated table has.
MaxAsignaturas == 3

\* The names of the subjects, in the order groupby leaves them.
NombresAsignaturas == <<"Algebra", "Biologia", "Calculo", "Derecho", "Etica">>

\* The terms the vectorizer keeps of the joined text of a subject.
TerminosDeAsignatura ==
    {{"datos"}, {"etica"}, {"redes"}, {"datos", "etica"}, {"datos", "redes"}, {"etica", "redes"}}

\* The grouped tables: n subjects, each with its terms.
TablasPorAsignatura ==
    UNION {{[i \in 1..n |-> [nombre |-> NombresAsignaturas[i], terminos |-> f[i]]] :
               f \in [1..n -> TerminosDeAsignatura]} : n \in 1..MaxAsignaturas}

\* The cosines two texts with a common term can have, in thousandths.
CosenosPositivos == {400, 900}

\* cosine_similarity(tfidf_asig): a symmetric matrix, 1 on the diagonal, 0
\* between subjects without a common term and positive between the others.
cosine_similarity(tabla) ==
    LET n == Len(tabla)
        pares == {ij \in (1..n) \X (1..n) : ij[1] < ij[2]}
    IN {[ij \in (1..n) \X (1..n) |->
            IF ij[1] = ij[2] THEN 1000
            ELSE IF tabla[ij[1]].terminos \cap tabla[ij[2]].terminos = {} THEN 0
            ELSE c[<<Min(ij[1], ij[2]), Max(ij[1], ij[2])>>]] :
        c \in [pares -> CosenosPositivos]}

\* np.fill_diagonal(sim, 0)
fill_diagonal(sim, n) ==
    [ij \in (1..n) \X (1..n) |-> IF ij[1] = ij[2] THEN 0 ELSE sim[ij]]

\* np.unravel_index(sim.argmax(), sim.shape): the first entry, row by row,
\* that holds the greatest value.
argmax(sim, n) ==
    CHOOSE ij \in (1..n) \X (1..n) :
        /\ \A kl \in (1..n) \X (1..n) : sim[ij] >= sim[kl]
        /\ \A kl \in (1..n) \X (1..n) :
              sim[kl] = sim[ij] => (ij[1] - 1) * n + ij[2] <= (kl[1] - 1) * n + kl[2]

\* The step 3.3 of analisis_mineria_texto, for the matrix sim the library
\* computed; the DataFrame of the matrix shares the array that
\* fill_diagonal changes, or holds a copy of it.
analisis_mineria_texto(tabla, sim, comparte) ==
    IF Len(tabla) > 2
    THEN LET n == Len(tabla)
             similitud_asignaturas == fill_diagonal(sim, n)
             max_similitud_idx == argmax(similitud_asignaturas, n)
         IN [matriz_similitud_asignaturas |->
                 IF comparte THEN similitud_asignaturas ELSE sim,
             par_mas_similar |->
                 [asignatura1 |-> tabla[max_similitud_idx[1]].nombre,
                  asignatura2 |-> tabla[max_similitud_idx[2]].nombre,
                  similitud |-> similitud_asignaturas[max_similitud_idx]]]
    ELSE [omitido |-> TRUE]

\* The similarity step of analizar_nlp.
analizar_nlp(tabla, sim, comparte) ==
    IF Len(tabla) > 2
    THEN LET n == Len(tabla)
             sim_0 == fill_diagonal(sim, n)
             max_idx == argmax(sim_0, n)
         IN [similitud_df |-> IF comparte THEN sim_0 ELSE sim,
             par_similar |->
                 [asig1 |-> tabla[max_idx[1]].nombre,
                  asig2 |-> tabla[max_idx[2]].nombre,
                  similitud |-> sim_0[max_idx]]]
    ELSE [similitud_df |-> <<>>, par_similar |-> None]

InitNlp ==
    /\ df_por_asignatura \in TablasPorAsignatura
    /\ analisis_nlp = ""
    /\ resultados_nlp = None
    /\ text = NaN
    /\ tematicas_config = None
    /\ extract_context = FALSE
    /\ resultados = None
    /\ SinCorpus
    /\ SinPrograma
    /\ SinNivel
    /\ SinConfig
    /\ SinDict
    /\ SinConsolida
    /\ SinData
    /\ SinNormal
    /\ SinCobertura
    /\ SinLote

\* What a text mining leaves.
MineriaDeja(nombre, res) ==
    /\ analisis_nlp' = nombre
    /\ resultados_nlp' = res
    /\ UNCHANGED df_por_asignatura
    /\ UNCHANGED varsDetect
    /\ UNCHANGED tematicas_config
    /\ UNCHANGED varsCorpus
    /\ UNCHANGED varsQuality
    /\ UNCHANGED varsNivel
    /\ UNCHANGED varsConfig
    /\ UNCHANGED varsDict
    /\ UNCHANGED varsConsolida
    /\ UNCHANGED varsData
    /\ UNCHANGED varsNormal
    /\ UNCHANGED varsCobertura
    /\ UNCHANGED varsLote

AnalisisMineriaTexto ==
    /\ analisis_nlp = ""
    /\ \E sim \in cosine_similarity(df_por_asignatura), comparte \in BOOLEAN :
          MineriaDeja("avanzado", analisis_mineria_texto(df_por_asignatura, sim, comparte))

AnalizarNlp ==
    /\ analisis_nlp = ""
    /\ \E sim \in cosine_similarity(df_por_asignatura), comparte \in BOOLEAN :
          MineriaDeja("dashboard", analizar_nlp(df_por_asignatura, sim, comparte))

NextNlp ==
    \/ AnalisisMineriaTexto
    \/ AnalizarNlp

SpecNlp == InitNlp /\ [][NextNlp]_vars

(* Claims about the similarity between subjects *)

\* A text mining has returned.
Minado == resultados_nlp # None

\* The matrix of similarity of the result, None when it has none.
MatrizDeSimilitud ==
    IF analisis_nlp = "avanzado"
    THEN IF "matriz_similitud_asignaturas" \in DOMAIN resultados_nlp
         THEN resultados_nlp.matriz_similitud_asignaturas ELSE None
    ELSE IF resultados_nlp.similitud_df = <<>> THEN None ELSE resultados_nlp.similitud_df

\* The top pair of the result as <<subject, subject, score>>, None when it
\* has none.
ParMasSimilar ==
    IF analisis_nlp = "avanzado"
    THEN IF "par_mas_similar" \in DOMAIN resultados_nlp
         THEN <<resultados_nlp.par_mas_similar.asignatura1,
                resultados_nlp.par_mas_similar.asignatura2,
                resultados_nlp.par_mas_similar.similitud>>
         ELSE None
    ELSE IF resultados_nlp.par_similar = None THEN None
         ELSE <<resultados_nlp.par_similar.asig1, resultados_nlp.par_similar.asig2,
                resultados_nlp.par_similar.similitud>>

\* C26: with fewer than 3 subjects there is no matrix of similarity and no
\* top pair; with 3 or more the top pair is two different subjects and its
\* score is the greatest entry of the matrix off the diagonal.
C26_TopPairIsOffDiagonalMaximum ==
    Minado =>
        IF Len(df_por_asignatura) < 3
        THEN MatrizDeSimilitud = None /\ ParMasSimilar = None
        ELSE /\ MatrizDeSimilitud # None
             /\ ParMasSimilar # None
             /\ ParMasSimilar[1] # ParMasSimilar[2]
             /\ \E ij \in DOMAIN MatrizDeSimilitud :
                   ij[1] # ij[2] /\ MatrizDeSimilitud[ij] = ParMasSimilar[3]
             /\ \A ij \in DOMAIN MatrizDeSimilitud :
                   ij[1] # ij[2] => MatrizDeSimilitud[ij] <= ParMasSimilar[3]

----------------------------------------------------------------------------
(* Claims about the balance of the kinds of knowledge *)

\* The three percentages of a balance, in tenths.
PorcentajesDe(b) == <<b.Saber, b.SaberHacer, b.SaberSer>>

\* The population standard deviation of three values in tenths is less than
\* 10: the squares of the distances to the mean add up to less than
\* 3 * 100 * 100, here with every distance taken 3 times.
DesviacionMenorQue10(v) ==
    LET S == v[1] + v[2] + v[3]
    IN (3 * v[1] - S) * (3 * v[1] - S) + (3 * v[2] - S) * (3 * v[2] - S)
       + (3 * v[3] - S) * (3 * v[3] - S) < 270000

\* C27: 'balanceado' is true exactly when the population standard deviation
\* of the three percentages is less than 10; it is true for the percentages
\* 33.3, 33.3, 33.4 and false for 80.0, 10.0, 10.0.
C27_BalancedIffDeviationBelow10 ==
    /\ Reported =>
          (reporte.balance_tipo_saber.balanceado
              <=> DesviacionMenorQue10(PorcentajesDe(reporte.balance_tipo_saber)))
    /\ balance_de(<<333, 333, 334>>).balanceado
    /\ ~balance_de(<<800, 100, 100>>).balanceado

\* C27 witness: a report of a program with learning outcomes of the three
\* kinds of knowledge in equal parts, which is balanced.
C27_Witness ==
    /\ Reported
    /\ reporte.balance_tipo_saber.balanceado
    /\ reporte.balance_tipo_saber.Saber > 0
    /\ reporte.balance_tipo_saber.SaberHacer > 0
    /\ reporte.balance_tipo_saber.SaberSer > 0

----------------------------------------------------------------------------
(* The batch run: process_single_program and main (run_analysis.py) *)

\* The most workbooks the input folder has.
MaxLibros == 3

\* The workbooks: one that is read and analysed, one with structural errors
\* (a warning; it is analysed all the same), and one on which a step of
\* process_single_program raises an exception.
ClasesDeLibro == {"valido", "con_errores", "ilegible"}

NombresDeLibros == <<"FormatoRA_A.xlsx", "FormatoRA_B.xlsx", "FormatoRA_C.xlsx", "FormatoRA_D.xlsx">>

\* list(input_folder.glob('*.xlsx'))
CarpetasDeEntrada ==
    UNION {{[i \in 1..n |-> [name |-> NombresDeLibros[i], clase |-> c[i]]] :
               c \in [1..n -> ClasesDeLibro]} : n \in 0..MaxLibros}

\* process_single_program(file_path, detector, generator): the dict of the
\* program, or None when an exception was raised and caught.
process_single_program(file_path) ==
    IF file_path.clase = "ilegible" THEN None
    ELSE [data |-> file_path.name, indicadores |-> file_path.name,
          tematicas |-> file_path.name, validacion |-> file_path.clase = "valido"]

\* The consolidated outputs, generated whatever all_results holds.
generar_consolidados_siempre(resultados_lote) ==
    {"matriz_tematicas.xlsx", "indicadores_consolidados.xlsx", "resumen_tematicas"}

\* if all_results: the matrix of themes, the consolidated workbook of
\* indicators and the summary of themes.
generar_consolidados(resultados_lote) ==
    IF resultados_lote # <<>>
    THEN {"matriz_tematicas.xlsx", "indicadores_consolidados.xlsx", "resumen_tematicas"}
    ELSE {}

InitLote ==
    /\ excel_files \in CarpetasDeEntrada
    /\ idx = 0
    /\ all_results = <<>>
    /\ errores = 0
    /\ registro = <<>>
    /\ consolidados = {}
    /\ fase = ""
    /\ text = NaN
    /\ tematicas_config = None
    /\ extract_context = FALSE
    /\ resultados = None
    /\ SinCorpus
    /\ SinPrograma
    /\ SinNivel
    /\ SinConfig
    /\ SinDict
    /\ SinConsolida
    /\ SinData
    /\ SinNormal
    /\ SinCobertura
    /\ SinNlp

\* main up to the loop: it returns when the folder has no workbook.
BuscarArchivos ==
    /\ fase = ""
    /\ fase' = IF excel_files = <<>> THEN "fin" ELSE "bucle"
    /\ UNCHANGED <<excel_files, idx, all_results, errores, registro, consolidados>>
    /\ UNCHANGED varsDetect
    /\ UNCHANGED tematicas_config
    /\ UNCHANGED varsCorpus
    /\ UNCHANGED varsQuality
    /\ UNCHANGED varsNivel
    /\ UNCHANGED varsConfig
    /\ UNCHANGED varsDict
    /\ UNCHANGED varsConsolida
    /\ UNCHANGED varsData
    /\ UNCHANGED varsNormal
    /\ UNCHANGED varsCobertura
    /\ UNCHANGED varsNlp

\* One pass of the loop of main: the next workbook is processed and its
\* result appended, or counted as an error.
ProcessSingleProgram ==
    /\ fase = "bucle"
    /\ idx < Len(excel_files)
    /\ idx' = idx + 1
    /\ registro' = Append(registro, excel_files[idx + 1].name)
    /\ \E result \in {process_single_program(excel_files[idx + 1])} :
          IF result # None
          THEN all_results' = Append(all_results, result) /\ UNCHANGED errores
          ELSE errores' = errores + 1 /\ UNCHANGED all_results
    /\ UNCHANGED <<excel_files, consolidados, fase>>
    /\ UNCHANGED varsDetect
    /\ UNCHANGED tematicas_config
    /\ UNCHANGED varsCorpus
    /\ UNCHANGED varsQuality
    /\ UNCHANGED varsNivel
    /\ UNCHANGED varsConfig
    /\ UNCHANGED varsDict
    /\ UNCHANGED varsConsolida
    /\ UNCHANGED varsData
    /\ UNCHANGED varsNormal
    /\ UNCHANGED varsCobertura
    /\ UNCHANGED varsNlp

\* main after the loop: the consolidated outputs and the final summary.
GenerarConsolidados ==
    /\ fase = "bucle"
    /\ idx = Len(excel_files)
    /\ consolidados' = generar_consolidados(all_results)
    /\ fase' = "fin"
    /\ UNCHANGED <<excel_files, idx, all_results, errores, registro>>
    /\ UNCHANGED varsDetect
    /\ UNCHANGED tematicas_config
    /\ UNCHANGED varsCorpus
    /\ UNCHANGED varsQuality
    /\ UNCHANGED varsNivel
    /\ UNCHANGED varsConfig
    /\ UNCHANGED varsDict
    /\ UNCHANGED varsConsolida
    /\ UNCHANGED varsData
    /\ UNCHANGED varsNormal
    /\ UNCHANGED varsCobertura
    /\ UNCHANGED varsNlp

NextLote ==
    \/ BuscarArchivos
    \/ ProcessSingleProgram
    \/ GenerarConsolidados

SpecLote == InitLote /\ [][NextLote]_vars

(* Claims about the batch run *)

\* The workbooks that can be processed without an exception.
Procesables == {i \in 1..Len(excel_files) : excel_files[i].clase # "ilegible"}

\* main has left the loop.
TrasElBucle == fase = "fin" /\ excel_files # <<>>

----------------------------------------------------------------------------
(* Claims about the edits of the session dictionary *)

\* The last run of the page ended with the message msg.
UltimoMensaje(msg) == mensajes # <<>> /\ mensajes[Len(mensajes)] = msg

Restaurado == UltimoMensaje([success |-> "Tendencias restauradas a valores por defecto."])

Agregado == UltimoMensaje([success |-> "Tendencia agregada"])

\* The theme a submitted form describes.
TemaDelFormulario(evento) ==
    tema(keywords_list(evento.nuevas_keywords), evento.nuevo_color, evento.nueva_desc)

====
